---- MODULE Spec2Model ----
(***************************************************************************)
(* A model of the configuration-to-wire mapping of the dailyco client:     *)
(* the builders (CreateMeetingToken, RoomPropertiesBuilder, RoomBuilder),  *)
(* their serde serialization into JSON request bodies and self-signed      *)
(* token claims, and the serde deserialization of responses into the       *)
(* entities (Room, RoomProperties, MeetingToken).                          *)
(*                                                                         *)
(* Rust values are modelled as follows.                                    *)
(*   Option<T>      None is <<>>, Some(v) is <<v>>                         *)
(*   bool           TRUE / FALSE                                           *)
(*   i64, usize     integers                                               *)
(*   &str, String   strings                                                *)
(*   f64            the string of its shortest decimal form ("0.5"), or    *)
(*                  "NaN" / "inf" for the non-finite values                *)
(*   enum           the variant's identifier ("RtpTracks")                 *)
(*   struct         a record of its fields                                 *)
(* A JSON value is a record tagged t = "null", "bool", "num", "str" or     *)
(* "obj"; a scalar carries in v its JSON text without quotes, an object    *)
(* carries in members a function from its keys to JSON values; an array    *)
(* (t = "arr") carries in items the sequence of its elements.              *)
(***************************************************************************)
EXTENDS Integers, Sequences, FiniteSets, TLC

VARIABLES
    kind,       \* what this run exercises: the builder "token" (CreateMeetingToken),
                \* "props" (RoomPropertiesBuilder), "room" (RoomBuilder), or
                \* "response" (the decoding of responses)
    self,       \* the builder: the receiver of the setters and operations
    lastArg,    \* history: field |-> argument of the latest call of its setter
    ncalls,     \* history: the number of setter calls made on the builder
    lastCall,   \* history: whether the latest setter call was the "first" of its
                \* field, or repeated the "same" argument, or "changed" it
    out,        \* what the latest operation on the builder produced
    response,   \* the body of the response the operation received
    parsed,     \* the operation that ran and the result it returned
    status,     \* the HTTP status of that response (0: the request failed in
                \* transport and there is no response)
    client,     \* the Client the operations run on
    calls,      \* the calls of client operations: each with the requests it
                \* issued, and its result once it returned
    requests    \* the requests the builder has emitted, oldest first

vars == <<kind, self, lastArg, ncalls, lastCall, out, response, parsed,
          status, client, calls, requests>>

(***************************************************************************)
(* Bounds of the model.                                                    *)
(***************************************************************************)
\* At most this many setter calls are made on the builder in one run.
MaxCalls == 2
\* At most this many keys are present in a property object of a response.
MaxRespKeys == 2

\* The length of the longest page a listing response holds.
MaxPage == 2
\* The length in characters of the longest API key.
MaxKeyLen == 2
\* At most this many calls are made on the Client in one run.
MaxTasks == 2

\* The number of pieces the longest string of a caller is made of.
MaxParts == 3

(***************************************************************************)
(* Option<T> and Result<T, E>.                                             *)
(***************************************************************************)
None == <<>>
Some(v) == <<v>>
IsNone(o) == Len(o) = 0
IsSome(o) == Len(o) = 1

Ok(v) == [ok |-> TRUE, val |-> v]
Err(e) == [ok |-> FALSE, err |-> e]

(***************************************************************************)
(* JSON values.                                                            *)
(***************************************************************************)
JNull == [t |-> "null", v |-> "null"]
JBool(b) == [t |-> "bool", v |-> IF b THEN "true" ELSE "false"]
JNum(text) == [t |-> "num", v |-> text]
JStr(s) == [t |-> "str", v |-> s]
JObj(f) == [t |-> "obj", members |-> f]
JArr(items) == [t |-> "arr", items |-> items]
\* A body that is not JSON text.
NotJson(text) == [t |-> "text", v |-> text]

Digit == <<"0", "1", "2", "3", "4", "5", "6", "7", "8", "9">>

RECURSIVE NatToStr(_)
NatToStr(n) ==
    IF n < 10 THEN Digit[n + 1]
    ELSE NatToStr(n \div 10) \o Digit[(n % 10) + 1]

\* The decimal text serde_json writes for an integer.
IntToStr(n) == IF n < 0 THEN "-" \o NatToStr(-n) ELSE NatToStr(n)

\* The integers a response may carry in this model.
IntRange == -1 .. 150
IntText == [n \in IntRange |-> IntToStr(n)]

\* The integer a JSON number text denotes, if it is the text of one.
ParseInt(text) ==
    IF \E n \in IntRange : IntText[n] = text
    THEN Some(CHOOSE n \in IntRange : IntText[n] = text)
    ELSE None

(***************************************************************************)
(* The configuration enums and serde's rename_all rules.                   *)
(***************************************************************************)
Ident ==
  [ AuthenticationError |-> <<"A", "u", "t", "h", "e", "n", "t", "i", "c", "a", "t", "i", "o", "n", "E", "r", "r", "o", "r">>,
    AuthorizationHeaderError |-> <<"A", "u", "t", "h", "o", "r", "i", "z", "a", "t", "i", "o", "n", "H", "e", "a", "d", "e", "r", "E", "r", "r", "o", "r">>,
    JsonParsingError |-> <<"J", "s", "o", "n", "P", "a", "r", "s", "i", "n", "g", "E", "r", "r", "o", "r">>,
    InvalidRequestError |-> <<"I", "n", "v", "a", "l", "i", "d", "R", "e", "q", "u", "e", "s", "t", "E", "r", "r", "o", "r">>,
    RateLimitError |-> <<"R", "a", "t", "e", "L", "i", "m", "i", "t", "E", "r", "r", "o", "r">>,
    ServerError |-> <<"S", "e", "r", "v", "e", "r", "E", "r", "r", "o", "r">>,
    NotFound |-> <<"N", "o", "t", "F", "o", "u", "n", "d">>,
    Finished |-> <<"F", "i", "n", "i", "s", "h", "e", "d">>,
    InProgress |-> <<"I", "n", "P", "r", "o", "g", "r", "e", "s", "s">>,
    Canceled |-> <<"C", "a", "n", "c", "e", "l", "e", "d">>,
    AfSouth1 |-> <<"A", "f", "S", "o", "u", "t", "h", "1">>,
    ApNortheast2 |-> <<"A", "p", "N", "o", "r", "t", "h", "e", "a", "s", "t", "2">>,
    ApSouth1 |-> <<"A", "p", "S", "o", "u", "t", "h", "1">>,
    ApSoutheast1 |-> <<"A", "p", "S", "o", "u", "t", "h", "e", "a", "s", "t", "1">>,
    ApSoutheast2 |-> <<"A", "p", "S", "o", "u", "t", "h", "e", "a", "s", "t", "2">>,
    Cloud |-> <<"C", "l", "o", "u", "d">>,
    De |-> <<"D", "e">>,
    En |-> <<"E", "n">>,
    Es |-> <<"E", "s">>,
    EuCentral1 |-> <<"E", "u", "C", "e", "n", "t", "r", "a", "l", "1">>,
    EuWest2 |-> <<"E", "u", "W", "e", "s", "t", "2">>,
    Fi |-> <<"F", "i">>,
    Fr |-> <<"F", "r">>,
    It |-> <<"I", "t">>,
    Jp |-> <<"J", "p">>,
    Ka |-> <<"K", "a">>,
    Local |-> <<"L", "o", "c", "a", "l">>,
    Nl |-> <<"N", "l">>,
    No |-> <<"N", "o">>,
    OutputByteStream |-> <<"O", "u", "t", "p", "u", "t", "B", "y", "t", "e", "S", "t", "r", "e", "a", "m">>,
    Pl |-> <<"P", "l">>,
    Private |-> <<"P", "r", "i", "v", "a", "t", "e">>,
    Pt |-> <<"P", "t">>,
    Public |-> <<"P", "u", "b", "l", "i", "c">>,
    RtpTracks |-> <<"R", "t", "p", "T", "r", "a", "c", "k", "s">>,
    Ru |-> <<"R", "u">>,
    SaEast1 |-> <<"S", "a", "E", "a", "s", "t", "1">>,
    Sv |-> <<"S", "v">>,
    Tr |-> <<"T", "r">>,
    UsEast1 |-> <<"U", "s", "E", "a", "s", "t", "1">>,
    UsWest2 |-> <<"U", "s", "W", "e", "s", "t", "2">>,
    User |-> <<"U", "s", "e", "r">>,
    Ws |-> <<"W", "s">> ]

RegionVariants == {"AfSouth1", "ApNortheast2", "ApSoutheast1", "ApSoutheast2", "ApSouth1", "EuCentral1", "EuWest2", "SaEast1", "UsEast1", "UsWest2"}

RtmpGeoRegionVariants == {"UsWest2", "EuCentral1", "ApSoutheast1"}

DailyLangVariants == {"De", "En", "Es", "Fi", "Fr", "It", "Jp", "Ka", "Nl", "No", "Pt", "Pl", "Ru", "Sv", "Tr", "User"}

RecordingTypeVariants == {"Cloud", "RtpTracks", "OutputByteStream", "Local"}

SignalingImpVariants == {"Ws"}

RoomPrivacyVariants == {"Public", "Private"}

DailyCoErrorKindVariants ==
    { "AuthenticationError", "AuthorizationHeaderError", "JsonParsingError",
      "InvalidRequestError", "RateLimitError", "ServerError", "NotFound" }

RecordingStatusVariants == {"Finished", "InProgress", "Canceled"}

Upper == {"A", "B", "C", "D", "E", "F", "G", "H", "I", "J", "K", "L", "M",
          "N", "O", "P", "Q", "R", "S", "T", "U", "V", "W", "X", "Y", "Z"}

ToAsciiLowercase(c) ==
    CASE c = "A" -> "a" [] c = "B" -> "b" [] c = "C" -> "c" [] c = "D" -> "d"
      [] c = "E" -> "e" [] c = "F" -> "f" [] c = "G" -> "g" [] c = "H" -> "h"
      [] c = "I" -> "i" [] c = "J" -> "j" [] c = "K" -> "k" [] c = "L" -> "l"
      [] c = "M" -> "m" [] c = "N" -> "n" [] c = "O" -> "o" [] c = "P" -> "p"
      [] c = "Q" -> "q" [] c = "R" -> "r" [] c = "S" -> "s" [] c = "T" -> "t"
      [] c = "U" -> "u" [] c = "V" -> "v" [] c = "W" -> "w" [] c = "X" -> "x"
      [] c = "Y" -> "y" [] c = "Z" -> "z" [] OTHER -> c

\* rename_all = "lowercase": the identifier in ASCII lower case.
RECURSIVE LowerCase(_)
LowerCase(chars) ==
    IF chars = <<>> THEN ""
    ELSE ToAsciiLowercase(Head(chars)) \o LowerCase(Tail(chars))

\* rename_all = "kebab-case": a "-" before every upper-case letter but the
\* first, every letter in lower case (a digit starts no new word).
RECURSIVE KebabFrom(_, _)
KebabFrom(chars, i) ==
    IF i > Len(chars) THEN ""
    ELSE (IF i > 1 /\ chars[i] \in Upper THEN "-" ELSE "")
         \o ToAsciiLowercase(chars[i]) \o KebabFrom(chars, i + 1)

KebabCase(chars) == KebabFrom(chars, 1)

\* The variants of each enum type.
Variants ==
    [ Region |-> RegionVariants,
      RtmpGeoRegion |-> RtmpGeoRegionVariants,
      DailyLang |-> DailyLangVariants,
      RecordingType |-> RecordingTypeVariants,
      SignalingImp |-> SignalingImpVariants,
      RoomPrivacy |-> RoomPrivacyVariants,
      DailyCoErrorKind |-> DailyCoErrorKindVariants,
      RecordingStatus |-> RecordingStatusVariants ]

EnumTypes == DOMAIN Variants

\* The #[serde(rename_all = ...)] attribute of each enum type.
RenameAll ==
    [ Region |-> "kebab-case",
      RtmpGeoRegion |-> "kebab-case",
      DailyLang |-> "lowercase",
      RecordingType |-> "kebab-case",
      SignalingImp |-> "lowercase",
      RoomPrivacy |-> "lowercase",
      DailyCoErrorKind |-> "kebab-case",
      RecordingStatus |-> "kebab-case" ]

\* The string a variant is written as, and read from.
WireName ==
    [ ty \in EnumTypes |->
        [ v \in Variants[ty] |->
            IF RenameAll[ty] = "kebab-case" THEN KebabCase(Ident[v])
            ELSE LowerCase(Ident[v]) ] ]

\* A faulty Default for DailyLang: the user's language.
DefaultOf_user_lang(ty) ==
    CASE ty = "DailyLang" -> "User"
      [] ty = "SignalingImp" -> "Ws"
      [] ty = "RoomPrivacy" -> "Public"
      [] ty = "bool" -> FALSE

\* A faulty Default for bool.
DefaultOf_true(ty) ==
    CASE ty = "DailyLang" -> "En"
      [] ty = "SignalingImp" -> "Ws"
      [] ty = "RoomPrivacy" -> "Public"
      [] ty = "bool" -> TRUE

\* impl Default for DailyLang / SignalingImp / bool.
DefaultOf(ty) ==
    CASE ty = "DailyLang" -> "En"
      [] ty = "SignalingImp" -> "Ws"
      [] ty = "RoomPrivacy" -> "Public"
      [] ty = "bool" -> FALSE

\* utils::default_as_true, the serde default of the fields enabled by default.
default_as_true == TRUE

\* The f64 values that are not finite.
NonFinite == {"NaN", "inf", "-inf"}

(***************************************************************************)
(* The structs: per field its type, whether it is an Option, whether it    *)
(* is skipped when None on serialization, its serde default on             *)
(* deserialization, and the key it is written under.                       *)
(***************************************************************************)
(* struct CreateMeetingToken, src/src/meeting_token.rs:11-48 *)
CreateMeetingToken ==
  [ room_name |-> [ty |-> "str", option |-> TRUE, skip |-> TRUE, default |-> "", key |-> "room_name"],
    eject_at_token_exp |-> [ty |-> "bool", option |-> TRUE, skip |-> TRUE, default |-> "", key |-> "eject_at_token_exp"],
    eject_after_elapsed |-> [ty |-> "i64", option |-> TRUE, skip |-> TRUE, default |-> "", key |-> "eject_after_elapsed"],
    nbf |-> [ty |-> "i64", option |-> TRUE, skip |-> TRUE, default |-> "", key |-> "nbf"],
    exp |-> [ty |-> "i64", option |-> TRUE, skip |-> TRUE, default |-> "", key |-> "exp"],
    is_owner |-> [ty |-> "bool", option |-> TRUE, skip |-> TRUE, default |-> "", key |-> "is_owner"],
    user_name |-> [ty |-> "str", option |-> TRUE, skip |-> TRUE, default |-> "", key |-> "user_name"],
    user_id |-> [ty |-> "str", option |-> TRUE, skip |-> TRUE, default |-> "", key |-> "user_id"],
    enable_screenshare |-> [ty |-> "bool", option |-> TRUE, skip |-> TRUE, default |-> "", key |-> "enable_screenshare"],
    start_video_off |-> [ty |-> "bool", option |-> TRUE, skip |-> TRUE, default |-> "", key |-> "start_video_off"],
    start_audio_off |-> [ty |-> "bool", option |-> TRUE, skip |-> TRUE, default |-> "", key |-> "start_audio_off"],
    enable_recording |-> [ty |-> "RecordingType", option |-> TRUE, skip |-> TRUE, default |-> "", key |-> "enable_recording"],
    enable_prejoin_ui |-> [ty |-> "bool", option |-> TRUE, skip |-> TRUE, default |-> "", key |-> "enable_prejoin_ui"],
    enable_terse_logging |-> [ty |-> "bool", option |-> TRUE, skip |-> TRUE, default |-> "", key |-> "enable_terse_logging"],
    start_cloud_recording |-> [ty |-> "bool", option |-> TRUE, skip |-> TRUE, default |-> "", key |-> "start_cloud_recording"],
    close_tab_on_exit |-> [ty |-> "bool", option |-> TRUE, skip |-> TRUE, default |-> "", key |-> "close_tab_on_exit"],
    redirect_on_meeting_exit |-> [ty |-> "str", option |-> TRUE, skip |-> TRUE, default |-> "", key |-> "redirect_on_meeting_exit"],
    lang |-> [ty |-> "DailyLang", option |-> TRUE, skip |-> TRUE, default |-> "", key |-> "lang"] ]

(* struct MeetingToken, src/src/meeting_token.rs:244-295 *)
MeetingToken ==
  [ room_name |-> [ty |-> "str", option |-> TRUE, skip |-> FALSE, default |-> "", key |-> "room_name"],
    eject_at_token_exp |-> [ty |-> "bool", option |-> FALSE, skip |-> FALSE, default |-> "Default::default", key |-> "eject_at_token_exp"],
    eject_after_elapsed |-> [ty |-> "i64", option |-> TRUE, skip |-> FALSE, default |-> "", key |-> "eject_after_elapsed"],
    nbf |-> [ty |-> "i64", option |-> TRUE, skip |-> FALSE, default |-> "", key |-> "nbf"],
    exp |-> [ty |-> "i64", option |-> TRUE, skip |-> FALSE, default |-> "", key |-> "exp"],
    is_owner |-> [ty |-> "bool", option |-> FALSE, skip |-> FALSE, default |-> "Default::default", key |-> "is_owner"],
    user_name |-> [ty |-> "str", option |-> TRUE, skip |-> FALSE, default |-> "", key |-> "user_name"],
    user_id |-> [ty |-> "str", option |-> TRUE, skip |-> FALSE, default |-> "", key |-> "user_id"],
    enable_screenshare |-> [ty |-> "bool", option |-> FALSE, skip |-> FALSE, default |-> "default_as_true", key |-> "enable_screenshare"],
    start_video_off |-> [ty |-> "bool", option |-> FALSE, skip |-> FALSE, default |-> "Default::default", key |-> "start_video_off"],
    start_audio_off |-> [ty |-> "bool", option |-> FALSE, skip |-> FALSE, default |-> "Default::default", key |-> "start_audio_off"],
    enable_recording |-> [ty |-> "RecordingType", option |-> TRUE, skip |-> FALSE, default |-> "", key |-> "enable_recording"],
    enable_prejoin_ui |-> [ty |-> "bool", option |-> TRUE, skip |-> FALSE, default |-> "", key |-> "enable_prejoin_ui"],
    enable_terse_logging |-> [ty |-> "bool", option |-> FALSE, skip |-> FALSE, default |-> "Default::default", key |-> "enable_terse_logging"],
    start_cloud_recording |-> [ty |-> "bool", option |-> FALSE, skip |-> FALSE, default |-> "Default::default", key |-> "start_cloud_recording"],
    close_tab_on_exit |-> [ty |-> "bool", option |-> FALSE, skip |-> FALSE, default |-> "Default::default", key |-> "close_tab_on_exit"],
    redirect_on_meeting_exit |-> [ty |-> "str", option |-> TRUE, skip |-> FALSE, default |-> "", key |-> "redirect_on_meeting_exit"],
    lang |-> [ty |-> "DailyLang", option |-> TRUE, skip |-> FALSE, default |-> "", key |-> "lang"] ]

(* struct MeetingTokenBuilderRenamed, src/src/self_sign_token.rs:32-69 *)
MeetingTokenBuilderRenamed ==
  [ room_name |-> [ty |-> "str", option |-> TRUE, skip |-> TRUE, default |-> "", key |-> "r"],
    eject_at_token_exp |-> [ty |-> "bool", option |-> TRUE, skip |-> TRUE, default |-> "", key |-> "ejt"],
    eject_after_elapsed |-> [ty |-> "i64", option |-> TRUE, skip |-> TRUE, default |-> "", key |-> "eje"],
    nbf |-> [ty |-> "i64", option |-> TRUE, skip |-> TRUE, default |-> "", key |-> "nbf"],
    exp |-> [ty |-> "i64", option |-> TRUE, skip |-> TRUE, default |-> "", key |-> "exp"],
    is_owner |-> [ty |-> "bool", option |-> TRUE, skip |-> TRUE, default |-> "", key |-> "o"],
    user_name |-> [ty |-> "str", option |-> TRUE, skip |-> TRUE, default |-> "", key |-> "u"],
    user_id |-> [ty |-> "str", option |-> TRUE, skip |-> TRUE, default |-> "", key |-> "ud"],
    enable_screenshare |-> [ty |-> "bool", option |-> TRUE, skip |-> TRUE, default |-> "", key |-> "ss"],
    start_video_off |-> [ty |-> "bool", option |-> TRUE, skip |-> TRUE, default |-> "", key |-> "vo"],
    start_audio_off |-> [ty |-> "bool", option |-> TRUE, skip |-> TRUE, default |-> "", key |-> "ao"],
    enable_recording |-> [ty |-> "RecordingType", option |-> TRUE, skip |-> TRUE, default |-> "", key |-> "er"],
    enable_prejoin_ui |-> [ty |-> "bool", option |-> TRUE, skip |-> TRUE, default |-> "", key |-> "enable_prejoin_ui"],
    enable_terse_logging |-> [ty |-> "bool", option |-> TRUE, skip |-> TRUE, default |-> "", key |-> "enable_terse_logging"],
    start_cloud_recording |-> [ty |-> "bool", option |-> TRUE, skip |-> TRUE, default |-> "", key |-> "sr"],
    close_tab_on_exit |-> [ty |-> "bool", option |-> TRUE, skip |-> TRUE, default |-> "", key |-> "ctoe"],
    redirect_on_meeting_exit |-> [ty |-> "str", option |-> TRUE, skip |-> TRUE, default |-> "", key |-> "rome"],
    lang |-> [ty |-> "DailyLang", option |-> TRUE, skip |-> TRUE, default |-> "", key |-> "uil"] ]

(* struct RoomProperties, src/src/room_properties.rs:12-102 *)
RoomProperties ==
  [ nbf |-> [ty |-> "i64", option |-> TRUE, skip |-> FALSE, default |-> "", key |-> "nbf"],
    exp |-> [ty |-> "i64", option |-> TRUE, skip |-> FALSE, default |-> "", key |-> "exp"],
    max_participants |-> [ty |-> "usize", option |-> TRUE, skip |-> FALSE, default |-> "", key |-> "max_participants"],
    enable_people_ui |-> [ty |-> "bool", option |-> TRUE, skip |-> FALSE, default |-> "", key |-> "enable_people_ui"],
    enable_pip_ui |-> [ty |-> "bool", option |-> FALSE, skip |-> FALSE, default |-> "Default::default", key |-> "enable_pip_ui"],
    enable_prejoin_ui |-> [ty |-> "bool", option |-> TRUE, skip |-> FALSE, default |-> "", key |-> "enable_prejoin_ui"],
    enable_network_ui |-> [ty |-> "bool", option |-> FALSE, skip |-> FALSE, default |-> "Default::default", key |-> "enable_network_ui"],
    enable_knocking |-> [ty |-> "bool", option |-> FALSE, skip |-> FALSE, default |-> "Default::default", key |-> "enable_knocking"],
    enable_screenshare |-> [ty |-> "bool", option |-> FALSE, skip |-> FALSE, default |-> "default_as_true", key |-> "enable_screenshare"],
    enable_video_processing_ui |-> [ty |-> "bool", option |-> FALSE, skip |-> FALSE, default |-> "default_as_true", key |-> "enable_video_processing_ui"],
    enable_chat |-> [ty |-> "bool", option |-> FALSE, skip |-> FALSE, default |-> "Default::default", key |-> "enable_chat"],
    start_video_off |-> [ty |-> "bool", option |-> FALSE, skip |-> FALSE, default |-> "Default::default", key |-> "start_video_off"],
    start_audio_off |-> [ty |-> "bool", option |-> FALSE, skip |-> FALSE, default |-> "Default::default", key |-> "start_audio_off"],
    owner_only_broadcast |-> [ty |-> "bool", option |-> FALSE, skip |-> FALSE, default |-> "Default::default", key |-> "owner_only_broadcast"],
    enable_recording |-> [ty |-> "RecordingType", option |-> TRUE, skip |-> FALSE, default |-> "", key |-> "enable_recording"],
    eject_at_room_exp |-> [ty |-> "bool", option |-> FALSE, skip |-> FALSE, default |-> "Default::default", key |-> "eject_at_room_exp"],
    eject_after_elapsed |-> [ty |-> "i64", option |-> TRUE, skip |-> FALSE, default |-> "", key |-> "eject_after_elapsed"],
    enable_hidden_participants |-> [ty |-> "bool", option |-> FALSE, skip |-> FALSE, default |-> "Default::default", key |-> "enable_hidden_participants"],
    enable_mesh_sfu |-> [ty |-> "bool", option |-> TRUE, skip |-> FALSE, default |-> "", key |-> "enable_mesh_sfu"],
    experimental_optimize_large_calls |-> [ty |-> "bool", option |-> TRUE, skip |-> FALSE, default |-> "", key |-> "experimental_optimize_large_calls"],
    lang |-> [ty |-> "DailyLang", option |-> FALSE, skip |-> FALSE, default |-> "Default::default", key |-> "lang"],
    meeting_join_hook |-> [ty |-> "str", option |-> TRUE, skip |-> FALSE, default |-> "", key |-> "meeting_join_hook"],
    signaling_imp |-> [ty |-> "SignalingImp", option |-> FALSE, skip |-> FALSE, default |-> "Default::default", key |-> "signaling_imp"],
    geo |-> [ty |-> "Region", option |-> TRUE, skip |-> FALSE, default |-> "", key |-> "geo"],
    rtmp_geo |-> [ty |-> "RtmpGeoRegion", option |-> TRUE, skip |-> FALSE, default |-> "", key |-> "rtmp_geo"],
    enable_terse_logging |-> [ty |-> "bool", option |-> FALSE, skip |-> FALSE, default |-> "Default::default", key |-> "enable_terse_logging"],
    recordings_template |-> [ty |-> "str", option |-> TRUE, skip |-> FALSE, default |-> "", key |-> "recordings_template"],
    recordings_bucket |-> [ty |-> "RecordingsBucket", option |-> TRUE, skip |-> FALSE, default |-> "", key |-> "recordings_bucket"],
    sfu_switchover |-> [ty |-> "f64", option |-> TRUE, skip |-> FALSE, default |-> "", key |-> "sfu_switchover"] ]

(* struct RoomPropertiesBuilder, src/src/room_properties.rs:107-212 *)
RoomPropertiesBuilder ==
  [ nbf |-> [ty |-> "i64", option |-> TRUE, skip |-> TRUE, default |-> "", key |-> "nbf"],
    exp |-> [ty |-> "i64", option |-> TRUE, skip |-> TRUE, default |-> "", key |-> "exp"],
    max_participants |-> [ty |-> "usize", option |-> TRUE, skip |-> TRUE, default |-> "", key |-> "max_participants"],
    enable_people_ui |-> [ty |-> "bool", option |-> TRUE, skip |-> TRUE, default |-> "", key |-> "enable_people_ui"],
    enable_pip_ui |-> [ty |-> "bool", option |-> TRUE, skip |-> TRUE, default |-> "", key |-> "enable_pip_ui"],
    enable_prejoin_ui |-> [ty |-> "bool", option |-> TRUE, skip |-> TRUE, default |-> "", key |-> "enable_prejoin_ui"],
    enable_network_ui |-> [ty |-> "bool", option |-> TRUE, skip |-> TRUE, default |-> "", key |-> "enable_network_ui"],
    enable_knocking |-> [ty |-> "bool", option |-> TRUE, skip |-> TRUE, default |-> "", key |-> "enable_knocking"],
    enable_screenshare |-> [ty |-> "bool", option |-> TRUE, skip |-> TRUE, default |-> "", key |-> "enable_screenshare"],
    enable_video_processing_ui |-> [ty |-> "bool", option |-> TRUE, skip |-> TRUE, default |-> "", key |-> "enable_video_processing_ui"],
    enable_chat |-> [ty |-> "bool", option |-> TRUE, skip |-> TRUE, default |-> "", key |-> "enable_chat"],
    start_video_off |-> [ty |-> "bool", option |-> TRUE, skip |-> TRUE, default |-> "", key |-> "start_video_off"],
    start_audio_off |-> [ty |-> "bool", option |-> TRUE, skip |-> TRUE, default |-> "", key |-> "start_audio_off"],
    owner_only_broadcast |-> [ty |-> "bool", option |-> TRUE, skip |-> TRUE, default |-> "", key |-> "owner_only_broadcast"],
    enable_recording |-> [ty |-> "RecordingType", option |-> TRUE, skip |-> TRUE, default |-> "", key |-> "enable_recording"],
    eject_at_room_exp |-> [ty |-> "bool", option |-> TRUE, skip |-> TRUE, default |-> "", key |-> "eject_at_room_exp"],
    eject_after_elapsed |-> [ty |-> "i64", option |-> TRUE, skip |-> TRUE, default |-> "", key |-> "eject_after_elapsed"],
    enable_hidden_participants |-> [ty |-> "bool", option |-> TRUE, skip |-> TRUE, default |-> "", key |-> "enable_hidden_participants"],
    enable_mesh_sfu |-> [ty |-> "bool", option |-> TRUE, skip |-> TRUE, default |-> "", key |-> "enable_mesh_sfu"],
    experimental_optimize_large_calls |-> [ty |-> "bool", option |-> TRUE, skip |-> TRUE, default |-> "", key |-> "experimental_optimize_large_calls"],
    lang |-> [ty |-> "DailyLang", option |-> TRUE, skip |-> TRUE, default |-> "", key |-> "lang"],
    meeting_join_hook |-> [ty |-> "str", option |-> TRUE, skip |-> TRUE, default |-> "", key |-> "meeting_join_hook"],
    signaling_imp |-> [ty |-> "SignalingImp", option |-> TRUE, skip |-> TRUE, default |-> "", key |-> "signaling_imp"],
    geo |-> [ty |-> "Region", option |-> TRUE, skip |-> TRUE, default |-> "", key |-> "geo"],
    rtmp_geo |-> [ty |-> "RtmpGeoRegion", option |-> TRUE, skip |-> TRUE, default |-> "", key |-> "rtmp_geo"],
    enable_terse_logging |-> [ty |-> "bool", option |-> TRUE, skip |-> TRUE, default |-> "", key |-> "enable_terse_logging"],
    recordings_template |-> [ty |-> "str", option |-> TRUE, skip |-> TRUE, default |-> "", key |-> "recordings_template"],
    recordings_bucket |-> [ty |-> "RecordingsBucket", option |-> TRUE, skip |-> TRUE, default |-> "", key |-> "recordings_bucket"],
    sfu_switchover |-> [ty |-> "f64", option |-> TRUE, skip |-> TRUE, default |-> "", key |-> "sfu_switchover"] ]

(* struct RoomBuilder, src/src/room.rs:27-31 *)
RoomBuilder ==
  [ name |-> [ty |-> "str", option |-> TRUE, skip |-> TRUE, default |-> "", key |-> "name"],
    privacy |-> [ty |-> "RoomPrivacy", option |-> TRUE, skip |-> TRUE, default |-> "", key |-> "privacy"],
    properties |-> [ty |-> "RoomPropertiesBuilder_room", option |-> FALSE, skip |-> FALSE, default |-> "", key |-> "properties"] ]

(* struct RoomPropertiesBuilder, src/src/room.rs:275-344 *)
RoomPropertiesBuilder_room ==
  [ nbf |-> [ty |-> "i64", option |-> TRUE, skip |-> TRUE, default |-> "", key |-> "nbf"],
    exp |-> [ty |-> "i64", option |-> TRUE, skip |-> TRUE, default |-> "", key |-> "exp"],
    max_participants |-> [ty |-> "usize", option |-> TRUE, skip |-> TRUE, default |-> "", key |-> "max_participants"],
    enable_people_ui |-> [ty |-> "bool", option |-> TRUE, skip |-> TRUE, default |-> "", key |-> "enable_people_ui"],
    enable_pip_ui |-> [ty |-> "bool", option |-> TRUE, skip |-> TRUE, default |-> "", key |-> "enable_pip_ui"],
    enable_prejoin_ui |-> [ty |-> "bool", option |-> TRUE, skip |-> TRUE, default |-> "", key |-> "enable_prejoin_ui"],
    enable_network_ui |-> [ty |-> "bool", option |-> TRUE, skip |-> TRUE, default |-> "", key |-> "enable_network_ui"],
    enable_knocking |-> [ty |-> "bool", option |-> TRUE, skip |-> TRUE, default |-> "", key |-> "enable_knocking"],
    enable_screenshare |-> [ty |-> "bool", option |-> TRUE, skip |-> TRUE, default |-> "", key |-> "enable_screenshare"],
    enable_video_processing_ui |-> [ty |-> "bool", option |-> TRUE, skip |-> TRUE, default |-> "", key |-> "enable_video_processing_ui"],
    enable_chat |-> [ty |-> "bool", option |-> TRUE, skip |-> TRUE, default |-> "", key |-> "enable_chat"],
    start_video_off |-> [ty |-> "bool", option |-> TRUE, skip |-> TRUE, default |-> "", key |-> "start_video_off"],
    start_audio_off |-> [ty |-> "bool", option |-> TRUE, skip |-> TRUE, default |-> "", key |-> "start_audio_off"],
    owner_only_broadcast |-> [ty |-> "bool", option |-> TRUE, skip |-> TRUE, default |-> "", key |-> "owner_only_broadcast"],
    enable_recording |-> [ty |-> "RecordingType", option |-> TRUE, skip |-> TRUE, default |-> "", key |-> "enable_recording"],
    eject_at_room_exp |-> [ty |-> "bool", option |-> TRUE, skip |-> TRUE, default |-> "", key |-> "eject_at_room_exp"],
    eject_after_elapsed |-> [ty |-> "i64", option |-> TRUE, skip |-> TRUE, default |-> "", key |-> "eject_after_elapsed"],
    enable_hidden_participants |-> [ty |-> "bool", option |-> TRUE, skip |-> TRUE, default |-> "", key |-> "enable_hidden_participants"],
    enable_mesh_sfu |-> [ty |-> "bool", option |-> TRUE, skip |-> TRUE, default |-> "", key |-> "enable_mesh_sfu"],
    experimental_optimize_large_calls |-> [ty |-> "bool", option |-> TRUE, skip |-> TRUE, default |-> "", key |-> "experimental_optimize_large_calls"],
    lang |-> [ty |-> "DailyLang", option |-> TRUE, skip |-> TRUE, default |-> "", key |-> "lang"],
    meeting_join_hook |-> [ty |-> "str", option |-> TRUE, skip |-> TRUE, default |-> "", key |-> "meeting_join_hook"],
    signaling_imp |-> [ty |-> "SignalingImp", option |-> TRUE, skip |-> TRUE, default |-> "", key |-> "signaling_imp"],
    geo |-> [ty |-> "Region", option |-> TRUE, skip |-> TRUE, default |-> "", key |-> "geo"],
    rtmp_geo |-> [ty |-> "RtmpGeoRegion", option |-> TRUE, skip |-> TRUE, default |-> "", key |-> "rtmp_geo"],
    enable_terse_logging |-> [ty |-> "bool", option |-> TRUE, skip |-> TRUE, default |-> "", key |-> "enable_terse_logging"] ]

(* struct Room, src/src/room.rs:255-271 *)
Room ==
  [ id |-> [ty |-> "str", option |-> FALSE, skip |-> FALSE, default |-> "", key |-> "id"],
    name |-> [ty |-> "str", option |-> FALSE, skip |-> FALSE, default |-> "", key |-> "name"],
    api_created |-> [ty |-> "bool", option |-> FALSE, skip |-> FALSE, default |-> "", key |-> "api_created"],
    privacy |-> [ty |-> "RoomPrivacy", option |-> FALSE, skip |-> FALSE, default |-> "", key |-> "privacy"],
    url |-> [ty |-> "str", option |-> FALSE, skip |-> FALSE, default |-> "", key |-> "url"],
    created_at |-> [ty |-> "str", option |-> FALSE, skip |-> FALSE, default |-> "", key |-> "created_at"],
    config |-> [ty |-> "RoomProperties", option |-> FALSE, skip |-> FALSE, default |-> "", key |-> "config"] ]

(* struct RecordingsBucket, src/src/configuration.rs:109-123 *)
RecordingsBucket ==
  [ bucket_name |-> [ty |-> "str", option |-> FALSE, skip |-> FALSE, default |-> "", key |-> "bucket_name"],
    bucket_region |-> [ty |-> "str", option |-> FALSE, skip |-> FALSE, default |-> "", key |-> "bucket_region"],
    assume_role_arn |-> [ty |-> "str", option |-> FALSE, skip |-> FALSE, default |-> "", key |-> "assume_role_arn"],
    allow_api_access |-> [ty |-> "bool", option |-> FALSE, skip |-> FALSE, default |-> "", key |-> "allow_api_access"],
    allow_streaming_from_bucket |-> [ty |-> "bool", option |-> TRUE, skip |-> TRUE, default |-> "", key |-> "allow_streaming_from_bucket"] ]

(* struct SelfSigningTokenPayload, src/src/self_sign_token.rs:6-11 *)
SelfSigningTokenPayload ==
  [ d |-> [ty |-> "str", option |-> FALSE, skip |-> FALSE, default |-> "", key |-> "d"] ]

(* struct DailyCoErrorInfo, src/src/error.rs:74-80 *)
DailyCoErrorInfo ==
  [ error |-> [ty |-> "DailyCoErrorKind", option |-> TRUE, skip |-> FALSE, default |-> "", key |-> "error"],
    info |-> [ty |-> "str", option |-> TRUE, skip |-> FALSE, default |-> "", key |-> "info"] ]

(* struct GetRoomsResponse, src/src/client.rs:195-199 *)
GetRoomsResponse ==
  [ total_count |-> [ty |-> "usize", option |-> FALSE, skip |-> FALSE, default |-> "", key |-> "total_count"],
    data |-> [ty |-> "Vec_Room", option |-> FALSE, skip |-> FALSE, default |-> "", key |-> "data"] ]

(* struct MeetingTokenResponse, src/src/meeting_token.rs:190-196 *)
MeetingTokenResponse ==
  [ token |-> [ty |-> "str", option |-> FALSE, skip |-> FALSE, default |-> "", key |-> "token"] ]

(* struct RecordingObject, src/src/recording.rs:9-30 *)
RecordingObject ==
  [ id |-> [ty |-> "Uuid", option |-> FALSE, skip |-> FALSE, default |-> "", key |-> "id"],
    room_name |-> [ty |-> "str", option |-> FALSE, skip |-> FALSE, default |-> "", key |-> "room_name"],
    start_ts |-> [ty |-> "i64", option |-> FALSE, skip |-> FALSE, default |-> "", key |-> "start_ts"],
    status |-> [ty |-> "RecordingStatus", option |-> FALSE, skip |-> FALSE, default |-> "", key |-> "status"],
    max_participants |-> [ty |-> "u32", option |-> FALSE, skip |-> FALSE, default |-> "", key |-> "max_participants"],
    duration |-> [ty |-> "u32", option |-> TRUE, skip |-> FALSE, default |-> "", key |-> "duration"],
    s3key |-> [ty |-> "str", option |-> FALSE, skip |-> FALSE, default |-> "", key |-> "s3key"],
    meeting_session_id |-> [ty |-> "Uuid", option |-> FALSE, skip |-> FALSE, default |-> "", key |-> "mtgSessionId"] ]

(* struct ListedRecordings, src/src/recording.rs:87-93 *)
ListedRecordings ==
  [ total_count |-> [ty |-> "u32", option |-> FALSE, skip |-> FALSE, default |-> "", key |-> "total_count"],
    data |-> [ty |-> "Vec_RecordingObject", option |-> FALSE, skip |-> FALSE, default |-> "", key |-> "data"] ]

(***************************************************************************)
(* The setters.                                                            *)
(***************************************************************************)
(* impl CreateMeetingToken (setters), src/src/meeting_token.rs:59-169: per setter, the field it
   assigns (inside `properties` or not), its argument type, and the value it
   stores when it takes no argument. *)
CreateMeetingTokenSetters ==
  [ room_name |-> [inner |-> FALSE, target |-> "room_name", ty |-> "str", fixed |-> None],
    eject_at_token_exp |-> [inner |-> FALSE, target |-> "eject_at_token_exp", ty |-> "bool", fixed |-> None],
    eject_after_elapsed |-> [inner |-> FALSE, target |-> "eject_after_elapsed", ty |-> "i64", fixed |-> None],
    nbf |-> [inner |-> FALSE, target |-> "nbf", ty |-> "i64", fixed |-> None],
    exp |-> [inner |-> FALSE, target |-> "exp", ty |-> "i64", fixed |-> None],
    is_owner |-> [inner |-> FALSE, target |-> "is_owner", ty |-> "bool", fixed |-> None],
    user_name |-> [inner |-> FALSE, target |-> "user_name", ty |-> "str", fixed |-> None],
    user_id |-> [inner |-> FALSE, target |-> "user_id", ty |-> "str", fixed |-> None],
    enable_screenshare |-> [inner |-> FALSE, target |-> "enable_screenshare", ty |-> "bool", fixed |-> None],
    start_video_off |-> [inner |-> FALSE, target |-> "start_video_off", ty |-> "bool", fixed |-> None],
    start_audio_off |-> [inner |-> FALSE, target |-> "start_audio_off", ty |-> "bool", fixed |-> None],
    enable_recording |-> [inner |-> FALSE, target |-> "enable_recording", ty |-> "RecordingType", fixed |-> None],
    enable_prejoin_ui |-> [inner |-> FALSE, target |-> "enable_prejoin_ui", ty |-> "bool", fixed |-> None],
    enable_terse_logging |-> [inner |-> FALSE, target |-> "enable_terse_logging", ty |-> "bool", fixed |-> None],
    start_cloud_recording |-> [inner |-> FALSE, target |-> "start_cloud_recording", ty |-> "bool", fixed |-> None],
    close_tab_on_exit |-> [inner |-> FALSE, target |-> "close_tab_on_exit", ty |-> "bool", fixed |-> None],
    redirect_on_meeting_exit |-> [inner |-> FALSE, target |-> "redirect_on_meeting_exit", ty |-> "str", fixed |-> None],
    lang |-> [inner |-> FALSE, target |-> "lang", ty |-> "DailyLang", fixed |-> None] ]

(* impl RoomPropertiesBuilder (setters), src/src/room_properties.rs:221-419: per setter, the field it
   assigns (inside `properties` or not), its argument type, and the value it
   stores when it takes no argument. *)
RoomPropertiesBuilderSetters ==
  [ nbf |-> [inner |-> FALSE, target |-> "nbf", ty |-> "i64", fixed |-> None],
    exp |-> [inner |-> FALSE, target |-> "exp", ty |-> "i64", fixed |-> None],
    max_participants |-> [inner |-> FALSE, target |-> "max_participants", ty |-> "usize", fixed |-> None],
    enable_people_ui |-> [inner |-> FALSE, target |-> "enable_people_ui", ty |-> "bool", fixed |-> None],
    enable_pip_ui |-> [inner |-> FALSE, target |-> "enable_pip_ui", ty |-> "bool", fixed |-> None],
    enable_prejoin_ui |-> [inner |-> FALSE, target |-> "enable_prejoin_ui", ty |-> "bool", fixed |-> None],
    enable_network_ui |-> [inner |-> FALSE, target |-> "enable_network_ui", ty |-> "bool", fixed |-> None],
    enable_knocking |-> [inner |-> FALSE, target |-> "enable_knocking", ty |-> "bool", fixed |-> None],
    enable_screenshare |-> [inner |-> FALSE, target |-> "enable_screenshare", ty |-> "bool", fixed |-> None],
    enable_video_processing_ui |-> [inner |-> FALSE, target |-> "enable_video_processing_ui", ty |-> "bool", fixed |-> None],
    enable_chat |-> [inner |-> FALSE, target |-> "enable_chat", ty |-> "bool", fixed |-> None],
    start_video_off |-> [inner |-> FALSE, target |-> "start_video_off", ty |-> "bool", fixed |-> None],
    start_audio_off |-> [inner |-> FALSE, target |-> "start_audio_off", ty |-> "bool", fixed |-> None],
    owner_only_broadcast |-> [inner |-> FALSE, target |-> "owner_only_broadcast", ty |-> "bool", fixed |-> None],
    enable_recording |-> [inner |-> FALSE, target |-> "enable_recording", ty |-> "RecordingType", fixed |-> None],
    eject_at_room_exp |-> [inner |-> FALSE, target |-> "eject_at_room_exp", ty |-> "bool", fixed |-> None],
    eject_after_elapsed |-> [inner |-> FALSE, target |-> "eject_after_elapsed", ty |-> "i64", fixed |-> None],
    enable_hidden_participants |-> [inner |-> FALSE, target |-> "enable_hidden_participants", ty |-> "bool", fixed |-> None],
    enable_mesh_sfu |-> [inner |-> FALSE, target |-> "enable_mesh_sfu", ty |-> "bool", fixed |-> None],
    experimental_optimize_large_calls |-> [inner |-> FALSE, target |-> "experimental_optimize_large_calls", ty |-> "bool", fixed |-> None],
    lang |-> [inner |-> FALSE, target |-> "lang", ty |-> "DailyLang", fixed |-> None],
    meeting_join_hook |-> [inner |-> FALSE, target |-> "meeting_join_hook", ty |-> "str", fixed |-> None],
    signaling_imp |-> [inner |-> FALSE, target |-> "signaling_imp", ty |-> "SignalingImp", fixed |-> None],
    geo |-> [inner |-> FALSE, target |-> "geo", ty |-> "Region", fixed |-> None],
    rtmp_geo |-> [inner |-> FALSE, target |-> "rtmp_geo", ty |-> "RtmpGeoRegion", fixed |-> None],
    enable_terse_logging |-> [inner |-> FALSE, target |-> "enable_terse_logging", ty |-> "bool", fixed |-> None],
    recordings_template |-> [inner |-> FALSE, target |-> "recordings_template", ty |-> "str", fixed |-> None],
    sfu_switchover |-> [inner |-> FALSE, target |-> "sfu_switchover", ty |-> "f64", fixed |-> None],
    recordings_bucket |-> [inner |-> FALSE, target |-> "recordings_bucket", ty |-> "RecordingsBucket", fixed |-> None],
    sfu_always |-> [inner |-> FALSE, target |-> "sfu_switchover", ty |-> "f64", fixed |-> Some("0.5")] ]

(* impl RoomBuilder (setters), src/src/room.rs:42-226: per setter, the field it
   assigns (inside `properties` or not), its argument type, and the value it
   stores when it takes no argument. *)
RoomBuilderSetters ==
  [ name |-> [inner |-> FALSE, target |-> "name", ty |-> "str", fixed |-> None],
    privacy |-> [inner |-> FALSE, target |-> "privacy", ty |-> "RoomPrivacy", fixed |-> None],
    nbf |-> [inner |-> TRUE, target |-> "nbf", ty |-> "i64", fixed |-> None],
    exp |-> [inner |-> TRUE, target |-> "exp", ty |-> "i64", fixed |-> None],
    max_participants |-> [inner |-> TRUE, target |-> "max_participants", ty |-> "usize", fixed |-> None],
    enable_people_ui |-> [inner |-> TRUE, target |-> "enable_people_ui", ty |-> "bool", fixed |-> None],
    enable_pip_ui |-> [inner |-> TRUE, target |-> "enable_pip_ui", ty |-> "bool", fixed |-> None],
    enable_prejoin_ui |-> [inner |-> TRUE, target |-> "enable_prejoin_ui", ty |-> "bool", fixed |-> None],
    enable_network_ui |-> [inner |-> TRUE, target |-> "enable_network_ui", ty |-> "bool", fixed |-> None],
    enable_knocking |-> [inner |-> TRUE, target |-> "enable_knocking", ty |-> "bool", fixed |-> None],
    enable_screenshare |-> [inner |-> TRUE, target |-> "enable_screenshare", ty |-> "bool", fixed |-> None],
    enable_video_processing_ui |-> [inner |-> TRUE, target |-> "enable_video_processing_ui", ty |-> "bool", fixed |-> None],
    enable_chat |-> [inner |-> TRUE, target |-> "enable_chat", ty |-> "bool", fixed |-> None],
    start_video_off |-> [inner |-> TRUE, target |-> "start_video_off", ty |-> "bool", fixed |-> None],
    start_audio_off |-> [inner |-> TRUE, target |-> "start_audio_off", ty |-> "bool", fixed |-> None],
    owner_only_broadcast |-> [inner |-> TRUE, target |-> "owner_only_broadcast", ty |-> "bool", fixed |-> None],
    enable_recording |-> [inner |-> TRUE, target |-> "enable_recording", ty |-> "RecordingType", fixed |-> None],
    eject_at_room_exp |-> [inner |-> TRUE, target |-> "eject_at_room_exp", ty |-> "bool", fixed |-> None],
    eject_after_elapsed |-> [inner |-> TRUE, target |-> "eject_after_elapsed", ty |-> "i64", fixed |-> None],
    enable_hidden_participants |-> [inner |-> TRUE, target |-> "enable_hidden_participants", ty |-> "bool", fixed |-> None],
    enable_mesh_sfu |-> [inner |-> TRUE, target |-> "enable_mesh_sfu", ty |-> "bool", fixed |-> None],
    experimental_optimize_large_calls |-> [inner |-> TRUE, target |-> "experimental_optimize_large_calls", ty |-> "bool", fixed |-> None],
    lang |-> [inner |-> TRUE, target |-> "lang", ty |-> "DailyLang", fixed |-> None],
    meeting_join_hook |-> [inner |-> TRUE, target |-> "meeting_join_hook", ty |-> "str", fixed |-> None],
    signaling_imp |-> [inner |-> TRUE, target |-> "signaling_imp", ty |-> "SignalingImp", fixed |-> None],
    geo |-> [inner |-> TRUE, target |-> "geo", ty |-> "Region", fixed |-> None],
    rtmp_geo |-> [inner |-> TRUE, target |-> "rtmp_geo", ty |-> "RtmpGeoRegion", fixed |-> None],
    enable_terse_logging |-> [inner |-> TRUE, target |-> "enable_terse_logging", ty |-> "bool", fixed |-> None] ]

(***************************************************************************)
(* serde: Serialize.                                                       *)
(***************************************************************************)
StructTypes ==
    { "RecordingsBucket", "RoomProperties", "RoomPropertiesBuilder_room", "Room",
      "RecordingObject" }

StructOf(ty) ==
    CASE ty = "RecordingsBucket" -> RecordingsBucket
      [] ty = "RoomProperties" -> RoomProperties
      [] ty = "RoomPropertiesBuilder_room" -> RoomPropertiesBuilder_room
      [] ty = "Room" -> Room
      [] ty = "RecordingObject" -> RecordingObject

\* The element type of each Vec type.
VecTypes == [ Vec_Room |-> "Room", Vec_RecordingObject |-> "RecordingObject" ]

\* The texts that parse as a Uuid, among the strings of the model.
UuidTexts ==
    { "6ad2a4aa-6a18-4c3d-a1b9-000000000001", "6ad2a4aa-6a18-4c3d-a1b9-000000000002" }

RECURSIVE ToJson(_, _), FieldToJson(_, _), SerializeStruct(_, _)

\* serde_json's writing of a value of type ty. A non-finite f64 is written
\* as null.
ToJson(ty, v) ==
    CASE ty = "bool" -> JBool(v)
      [] ty \in {"i64", "usize"} -> JNum(IntToStr(v))
      [] ty = "f64" -> IF v \in NonFinite THEN JNull ELSE JNum(v)
      [] ty = "str" -> JStr(v)
      [] ty \in EnumTypes -> JStr(WireName[ty][v])
      [] ty \in StructTypes -> SerializeStruct(StructOf(ty), v)

\* The value written for a field: an Option writes null for None.
FieldToJson(d, x) ==
    IF d.option
    THEN IF IsNone(x) THEN JNull ELSE ToJson(d.ty, x[1])
    ELSE ToJson(d.ty, x)

\* A faulty Serialize that ignores skip_serializing_if and writes every field,
\* null for a None.
SerializeStruct_without_skip(desc, val) ==
    JObj([k \in {desc[f].key : f \in DOMAIN desc} |->
            LET f == CHOOSE g \in DOMAIN desc : desc[g].key = k
            IN  FieldToJson(desc[f], val[f])])

\* #[derive(Serialize)]: every field under its key, except a field marked
\* skip_serializing_if = "Option::is_none" that is None.
SerializeStruct(desc, val) ==
    LET emitted == {f \in DOMAIN desc : ~(desc[f].skip /\ IsNone(val[f]))}
        keys == {desc[f].key : f \in emitted}
    IN  JObj([k \in keys |->
                LET f == CHOOSE g \in emitted : desc[g].key = k
                IN  FieldToJson(desc[f], val[f])])

(***************************************************************************)
(* serde: Deserialize.                                                     *)
(***************************************************************************)
\* The f64 a JSON number text denotes (an integer text reads as n.0).
ParseF64(text) == IF IsSome(ParseInt(text)) THEN text \o ".0" ELSE text

RECURSIVE FromJson(_, _), DeserializeField(_, _), DeserializeStruct(_, _)

\* serde_json's reading of a value of type ty.
FromJson(ty, j) ==
    CASE ty = "bool" ->
            IF j.t = "bool" THEN Ok(j.v = "true") ELSE Err("invalid type")
      [] ty = "i64" ->
            IF j.t = "num" /\ IsSome(ParseInt(j.v))
            THEN Ok(ParseInt(j.v)[1]) ELSE Err("invalid type")
      [] ty = "usize" ->
            IF j.t = "num" /\ IsSome(ParseInt(j.v)) /\ ParseInt(j.v)[1] >= 0
            THEN Ok(ParseInt(j.v)[1]) ELSE Err("invalid type")
      [] ty = "f64" ->
            IF j.t = "num" THEN Ok(ParseF64(j.v)) ELSE Err("invalid type")
      [] ty = "str" ->
            IF j.t = "str" THEN Ok(j.v) ELSE Err("invalid type")
      [] ty \in EnumTypes ->
            IF j.t = "str" /\ \E v \in Variants[ty] : WireName[ty][v] = j.v
            THEN Ok(CHOOSE v \in Variants[ty] : WireName[ty][v] = j.v)
            ELSE Err("unknown variant")
      [] ty \in StructTypes -> DeserializeStruct(StructOf(ty), j)
      [] ty = "u32" ->
            IF j.t = "num" /\ IsSome(ParseInt(j.v)) /\ ParseInt(j.v)[1] >= 0
            THEN Ok(ParseInt(j.v)[1]) ELSE Err("invalid type")
      [] ty = "Uuid" ->
            IF j.t = "str" /\ j.v \in UuidTexts THEN Ok(j.v) ELSE Err("invalid type")
      [] ty \in DOMAIN VecTypes ->
            IF j.t # "arr" THEN Err("invalid type")
            ELSE LET r == [i \in DOMAIN j.items |-> FromJson(VecTypes[ty], j.items[i])]
                 IN  IF \E i \in DOMAIN r : ~r[i].ok THEN Err("invalid element")
                     ELSE Ok([i \in DOMAIN r |-> r[i].val])

\* A faulty reading of a field that forgets #[serde(default)]: a missing key
\* is None for an Option and an error otherwise.
DeserializeField_without_default(d, o) ==
    IF d.key \notin DOMAIN o
    THEN IF d.option THEN Ok(None) ELSE Err("missing field")
    ELSE IF d.option
         THEN IF o[d.key].t = "null" THEN Ok(None)
              ELSE LET r == FromJson(d.ty, o[d.key])
                   IN  IF r.ok THEN Ok(Some(r.val)) ELSE r
         ELSE FromJson(d.ty, o[d.key])

\* A faulty reading of a field that takes None, or the default, for a value
\* it cannot read.
DeserializeField_lenient(d, o) ==
    LET absent == IF d.default = "default_as_true" THEN Ok(default_as_true)
                  ELSE IF d.default = "Default::default" THEN Ok(DefaultOf(d.ty))
                  ELSE IF d.option THEN Ok(None)
                  ELSE Err("missing field")
    IN  IF d.key \notin DOMAIN o THEN absent
        ELSE IF d.option /\ o[d.key].t = "null" THEN Ok(None)
        ELSE IF ~FromJson(d.ty, o[d.key]).ok /\ d.ty \in EnumTypes THEN absent
        ELSE IF d.option
             THEN IF FromJson(d.ty, o[d.key]).ok
                  THEN Ok(Some(FromJson(d.ty, o[d.key]).val))
                  ELSE FromJson(d.ty, o[d.key])
             ELSE FromJson(d.ty, o[d.key])

\* One field of a struct read from the object o: a missing key takes the
\* field's serde default, None for an Option, and is an error otherwise; a
\* key that is present is read as the field's type (null reads as None for
\* an Option).
DeserializeField(d, o) ==
    IF d.key \notin DOMAIN o
    THEN IF d.default = "default_as_true" THEN Ok(default_as_true)
         ELSE IF d.default = "Default::default" THEN Ok(DefaultOf(d.ty))
         ELSE IF d.option THEN Ok(None)
         ELSE Err("missing field")
    ELSE IF d.option
         THEN IF o[d.key].t = "null" THEN Ok(None)
              ELSE LET r == FromJson(d.ty, o[d.key])
                   IN  IF r.ok THEN Ok(Some(r.val)) ELSE r
         ELSE FromJson(d.ty, o[d.key])

\* A faulty reading that refuses a key the struct does not know
\* (#[serde(deny_unknown_fields)]).
DeserializeStruct_deny_unknown_fields(desc, j) ==
    IF j.t # "obj" THEN Err("invalid type")
    ELSE IF \E k \in DOMAIN j.members : \A f \in DOMAIN desc : desc[f].key # k
    THEN Err("unknown field")
    ELSE LET r == [f \in DOMAIN desc |-> DeserializeField(desc[f], j.members)]
         IN  IF \E f \in DOMAIN desc : ~r[f].ok THEN Err("invalid field")
             ELSE Ok([f \in DOMAIN desc |-> r[f].val])

\* #[derive(Deserialize)]: every field read from the object, keys the
\* struct does not know are ignored, the first failing field fails the whole.
DeserializeStruct(desc, j) ==
    IF j.t # "obj" THEN Err("invalid type")
    ELSE LET r == [f \in DOMAIN desc |-> DeserializeField(desc[f], j.members)]
         IN  IF \E f \in DOMAIN desc : ~r[f].ok
             THEN Err((CHOOSE f \in DOMAIN desc : ~r[f].ok))
             ELSE Ok([f \in DOMAIN desc |-> r[f].val])

(***************************************************************************)
(* The builders.                                                           *)
(***************************************************************************)
\* #[derive(Default)]: None for every Option, the default of the nested struct.
RECURSIVE DefaultStruct(_)
DefaultStruct(desc) ==
    [f \in DOMAIN desc |->
        IF desc[f].option THEN None ELSE DefaultStruct(StructOf(desc[f].ty))]

\* CreateMeetingToken::new, RoomPropertiesBuilder::new, RoomBuilder::new
CreateMeetingToken_new == DefaultStruct(CreateMeetingToken)
RoomPropertiesBuilder_new == DefaultStruct(RoomPropertiesBuilder)
RoomBuilder_new == DefaultStruct(RoomBuilder)

\* A faulty setter that stores its argument even when it has a fixed value
\* of its own.
ApplySetter_without_fixed(b, s, v) ==
    IF s.inner
    THEN [b EXCEPT !.properties[s.target] = Some(v)]
    ELSE [b EXCEPT ![s.target] = Some(v)]

\* A faulty setter that keeps the first value its field was given.
ApplySetter_keep_first(b, s, v) ==
    LET x == IF IsSome(s.fixed) THEN s.fixed[1] ELSE v
    IN  IF s.inner
        THEN IF IsSome(b.properties[s.target]) THEN b
             ELSE [b EXCEPT !.properties[s.target] = Some(x)]
        ELSE IF IsSome(b[s.target]) THEN b
             ELSE [b EXCEPT ![s.target] = Some(x)]

\* A faulty setter that starts again from an empty bag.
ApplySetter_on_default(b, s, v) ==
    LET x == IF IsSome(s.fixed) THEN s.fixed[1] ELSE v
    IN  IF s.inner
        THEN [b EXCEPT !.properties =
                [f \in DOMAIN b.properties |-> IF f = s.target THEN Some(x) ELSE None]]
        ELSE [f \in DOMAIN b |->
                IF f = s.target THEN Some(x)
                ELSE IF f = "properties" THEN b[f] ELSE None]

\* The body of a setter s (an entry of a setter table) called with v on b.
ApplySetter(b, s, v) ==
    LET x == IF IsSome(s.fixed) THEN s.fixed[1] ELSE v
    IN  IF s.inner
        THEN [b EXCEPT !.properties[s.target] = Some(x)]
        ELSE [b EXCEPT ![s.target] = Some(x)]

\* A faulty conversion that crosses nbf and exp.
MeetingTokenBuilderRenamed_from_crossed(b) ==
    [f \in DOMAIN b |->
        IF f = "nbf" THEN b.exp ELSE IF f = "exp" THEN b.nbf ELSE b[f]]

\* impl From<MeetingTokenBuilder> for MeetingTokenBuilderRenamed
MeetingTokenBuilderRenamed_from(b) ==
    [ room_name |-> b.room_name,
      eject_at_token_exp |-> b.eject_at_token_exp,
      eject_after_elapsed |-> b.eject_after_elapsed,
      nbf |-> b.nbf,
      exp |-> b.exp,
      is_owner |-> b.is_owner,
      user_name |-> b.user_name,
      user_id |-> b.user_id,
      enable_screenshare |-> b.enable_screenshare,
      start_video_off |-> b.start_video_off,
      start_audio_off |-> b.start_audio_off,
      enable_recording |-> b.enable_recording,
      enable_prejoin_ui |-> b.enable_prejoin_ui,
      enable_terse_logging |-> b.enable_terse_logging,
      start_cloud_recording |-> b.start_cloud_recording,
      close_tab_on_exit |-> b.close_tab_on_exit,
      redirect_on_meeting_exit |-> b.redirect_on_meeting_exit,
      lang |-> b.lang ]

\* A faulty payload in which user_id is renamed to "u", the claim of
\* user_name, and lang to "d".
self_sign_token_colliding(config, domain_id) ==
    LET renamed == [MeetingTokenBuilderRenamed EXCEPT !.user_id.key = "u",
                                                      !.lang.key = "d"]
        rest == SerializeStruct(renamed, MeetingTokenBuilderRenamed_from(config)).members
    IN  JObj(rest @@ ("d" :> ToJson(SelfSigningTokenPayload.d.ty, domain_id)))

\* The claims self_sign_token signs: SelfSigningTokenPayload, that is `d`
\* followed by the flattened MeetingTokenBuilderRenamed.
self_sign_token(config, domain_id) ==
    LET rest == SerializeStruct(MeetingTokenBuilderRenamed,
                                MeetingTokenBuilderRenamed_from(config)).members
    IN  JObj(("d" :> ToJson(SelfSigningTokenPayload.d.ty, domain_id)) @@ rest)

\* A faulty header that names an RSA algorithm.
Header_default_rs256 == [typ |-> "JWT", alg |-> "RS256"]

\* jsonwebtoken's Header::default(): a JWT signed with HS256.
Header_default == [typ |-> "JWT", alg |-> "HS256"]

\* jsonwebtoken's encode(header, claims, key): InvalidAlgorithm if the key is
\* not of the family of the header's algorithm; otherwise the three parts of
\* the compact token, each in base64url (an alphabet without "."): the
\* header, the claims, and the signature of the first two under the key.
encode(header, claims, key) ==
    IF key.family # (IF header.alg \in {"HS256", "HS384", "HS512"} THEN "Hmac" ELSE "Rsa")
    THEN Err("InvalidAlgorithm")
    ELSE Ok(<< [b64 |-> header], [b64 |-> claims],
               [b64 |-> [alg |-> header.alg, key |-> key.secret,
                         message |-> <<header, claims>>]] >>)

\* self_sign_token, from the payload to the token: encode with the default
\* header and EncodingKey::from_secret(secret_key), a key of the HMAC family;
\* `.expect("Could not construct token")` panics on an Err.
signed_token(payload, secret_key) ==
    encode(Header_default, payload, [family |-> "Hmac", secret |-> secret_key])

\* Option::unwrap_or
unwrap_or(o, dflt) == IF IsSome(o) THEN o[1] ELSE dflt

\* A faulty conversion that takes false for an unset enable_screenshare.
MeetingToken_from_all_false(builder) ==
    [f \in DOMAIN MeetingToken |->
        IF MeetingToken[f].option THEN builder[f]
        ELSE unwrap_or(builder[f], FALSE)]

\* impl From<CreateMeetingToken> for MeetingToken
MeetingToken_from(builder) ==
    [ room_name |-> builder.room_name,
      eject_at_token_exp |-> unwrap_or(builder.eject_at_token_exp, DefaultOf("bool")),
      eject_after_elapsed |-> builder.eject_after_elapsed,
      nbf |-> builder.nbf,
      exp |-> builder.exp,
      is_owner |-> unwrap_or(builder.is_owner, DefaultOf("bool")),
      user_name |-> builder.user_name,
      user_id |-> builder.user_id,
      enable_screenshare |-> unwrap_or(builder.enable_screenshare, TRUE),
      start_video_off |-> unwrap_or(builder.start_video_off, DefaultOf("bool")),
      start_audio_off |-> unwrap_or(builder.start_audio_off, DefaultOf("bool")),
      enable_recording |-> builder.enable_recording,
      enable_prejoin_ui |-> builder.enable_prejoin_ui,
      enable_terse_logging |-> unwrap_or(builder.enable_terse_logging, DefaultOf("bool")),
      start_cloud_recording |-> unwrap_or(builder.start_cloud_recording, DefaultOf("bool")),
      close_tab_on_exit |-> unwrap_or(builder.close_tab_on_exit, DefaultOf("bool")),
      redirect_on_meeting_exit |-> builder.redirect_on_meeting_exit,
      lang |-> builder.lang ]

\* The body CreateMeetingToken::send posts: MeetingTokenBody { properties }.
MeetingTokenBody(b) ==
    JObj([properties |-> SerializeStruct(CreateMeetingToken, b)])

\* A faulty body that writes the property bag beside name and privacy
\* (#[serde(flatten)] on properties).
create_room_body_flattened(builder) ==
    LET whole == SerializeStruct(RoomBuilder, builder).members
    IN  JObj(whole.properties.members @@
             [k \in DOMAIN whole \ {"properties"} |-> whole[k]])

\* The body Client::create_room posts: the RoomBuilder itself.
create_room_body(builder) == SerializeStruct(RoomBuilder, builder)

(***************************************************************************)
(* The inputs of the model: the arguments a caller passes to the setters   *)
(* and to self_sign.                                                       *)
(***************************************************************************)
RecordingsBucketArgs ==
    { [ bucket_name |-> "bkt", bucket_region |-> "us-west-2",
        assume_role_arn |-> "arn", allow_api_access |-> TRUE,
        allow_streaming_from_bucket |-> None ],
      [ bucket_name |-> "bkt", bucket_region |-> "us-west-2",
        assume_role_arn |-> "arn", allow_api_access |-> FALSE,
        allow_streaming_from_bucket |-> Some(FALSE) ] }

ArgValues(ty) ==
    CASE ty = "bool" -> BOOLEAN
      [] ty = "i64" -> {0, 50}
      [] ty = "usize" -> {0, 12}
      [] ty = "str" -> {"abc", ""}
      [] ty = "f64" -> {"0.5", "2.0", "NaN"}
      [] ty = "RecordingType" -> {"Cloud", "RtpTracks"}
      [] ty = "DailyLang" -> {"En", "Es"}
      [] ty = "SignalingImp" -> {"Ws"}
      [] ty = "Region" -> {"EuCentral1", "UsWest2"}
      [] ty = "RtmpGeoRegion" -> {"EuCentral1", "UsWest2"}
      [] ty = "RoomPrivacy" -> {"Public", "Private"}
      [] ty = "RecordingsBucket" -> RecordingsBucketArgs

\* The arguments the setter s (an entry of a setter table) is called with; a
\* setter without a parameter is called with the unit value.
SetterArgs(s) == IF IsSome(s.fixed) THEN {"()"} ELSE ArgValues(s.ty)

DomainIds == {"D", "acme"}

\* The secret keys self_sign is called with: the empty one and another.
SecretKeys == {"", "test-api-key"}

(***************************************************************************)
(* History: which field a setter is documented to set, and with what.      *)
(* Every setter is named after its field; sfu_always is documented as      *)
(* "equivalent to setting sfu_switchover to 0.5".                          *)
(***************************************************************************)
SetterField(name) == IF name = "sfu_always" THEN "sfu_switchover" ELSE name
SetterValue(name, v) == IF name = "sfu_always" THEN "0.5" ELSE v

\* The fields whose setter was called at least once.
Called == DOMAIN lastArg

NoOut == [op |-> "none"]
Building == out.op = "none"

(***************************************************************************)
(* Actions on the builders. A run constructs one builder, calls setters   *)
(* on it, and then uses it; the operations that use a builder take &self  *)
(* (or a copy) and leave it as it is.                                      *)
(***************************************************************************)
Setters(k) ==
    CASE k = "token" -> CreateMeetingTokenSetters
      [] k = "props" -> RoomPropertiesBuilderSetters
      [] k = "room" -> RoomBuilderSetters

New(k) ==
    CASE k = "token" -> CreateMeetingToken_new
      [] k = "props" -> RoomPropertiesBuilder_new
      [] k = "room" -> RoomBuilder_new
      [] k \in {"response", "client"} -> <<>>

\* No Client: the run is about a builder alone.
NoClient == [built |-> FALSE]

Init ==
    /\ kind \in {"token", "props", "room"}
    /\ self = New(kind)
    /\ lastArg = <<>>
    /\ ncalls = 0
    /\ lastCall = "none"
    /\ out = NoOut
    /\ response = JNull
    /\ parsed = NoOut
    /\ status = 0
    /\ client = NoClient
    /\ calls = <<>>
    /\ requests = <<>>

\* A setter call: CreateMeetingToken::<name>(&mut self, v),
\* RoomPropertiesBuilder::<name>(self, v) -> Self, RoomBuilder::<name>(&mut self, v)
SetCall(k, name, v) ==
    /\ kind = k /\ ncalls < MaxCalls
    /\ self' = ApplySetter(self, Setters(k)[name], v)
    /\ lastArg' = (SetterField(name) :> SetterValue(name, v)) @@ lastArg
    /\ ncalls' = ncalls + 1
    /\ lastCall' = IF SetterField(name) \notin Called THEN "first"
                   ELSE IF lastArg[SetterField(name)] = SetterValue(name, v)
                        THEN "same" ELSE "changed"
    /\ UNCHANGED <<kind, out, response, parsed, status, client, calls, requests>>

\* A setter call on a builder that no operation has used yet.
Set(k, name, v) == Building /\ SetCall(k, name, v)

MTSet == \E name \in DOMAIN CreateMeetingTokenSetters :
           \E v \in SetterArgs(CreateMeetingTokenSetters[name]) : Set("token", name, v)

RPSet == \E name \in DOMAIN RoomPropertiesBuilderSetters :
           \E v \in SetterArgs(RoomPropertiesBuilderSetters[name]) : Set("props", name, v)

RBSet == \E name \in DOMAIN RoomBuilderSetters :
           \E v \in SetterArgs(RoomBuilderSetters[name]) : Set("room", name, v)

\* CreateMeetingToken::send(&self, client): the request it posts.
MTSend ==
    /\ kind = "token"
    /\ out' = [op |-> "send", body |-> MeetingTokenBody(self)]
    /\ UNCHANGED <<kind, self, lastArg, ncalls, lastCall, response, parsed,
                   status, client, calls, requests>>

\* CreateMeetingToken::self_sign(&self, domain_id, secret_key): the claims of
\* the token and what encode makes of them, the token it returns or the
\* error it panics on.
MTSelfSign ==
    /\ kind = "token"
    /\ \E domain_id \in DomainIds, secret_key \in SecretKeys :
         out' = [op |-> "self_sign", domain_id |-> domain_id,
                 secret_key |-> secret_key,
                 claims |-> self_sign_token(self, domain_id),
                 token |-> signed_token(self_sign_token(self, domain_id), secret_key)]
    /\ UNCHANGED <<kind, self, lastArg, ncalls, lastCall, response, parsed,
                   status, client, calls, requests>>

\* MeetingToken::from(builder)
MTInto ==
    /\ kind = "token"
    /\ out' = [op |-> "into", entity |-> MeetingToken_from(self)]
    /\ UNCHANGED <<kind, self, lastArg, ncalls, lastCall, response, parsed,
                   status, client, calls, requests>>

\* serde_json::to_value(&builder), then from_value::<MeetingToken>
MTRoundTrip ==
    /\ kind = "token"
    /\ LET json == SerializeStruct(CreateMeetingToken, self)
       IN  out' = [op |-> "roundtrip", json |-> json,
                   entity |-> DeserializeStruct(MeetingToken, json)]
    /\ UNCHANGED <<kind, self, lastArg, ncalls, lastCall, response, parsed,
                   status, client, calls, requests>>

\* serde_json::to_value(&builder), then from_value::<RoomProperties>
RPRoundTrip ==
    /\ kind = "props"
    /\ LET json == SerializeStruct(RoomPropertiesBuilder, self)
       IN  out' = [op |-> "roundtrip", json |-> json,
                   entity |-> DeserializeStruct(RoomProperties, json)]
    /\ UNCHANGED <<kind, self, lastArg, ncalls, lastCall, response, parsed,
                   status, client, calls, requests>>

\* RoomBuilder::create(&self, client): the request Client::create_room posts.
RBCreate ==
    /\ kind = "room"
    /\ out' = [op |-> "create", body |-> create_room_body(self)]
    /\ UNCHANGED <<kind, self, lastArg, ncalls, lastCall, response, parsed,
                   status, client, calls, requests>>

Next ==
    \/ MTSet
    \/ MTSend
    \/ MTSelfSign
    \/ MTInto
    \/ MTRoundTrip
    \/ RPSet
    \/ RPRoundTrip
    \/ RBSet
    \/ RBCreate

Spec == Init /\ [][Next]_vars

(***************************************************************************)
(* The responses. A run of RespSpec is one call of one client operation:   *)
(* its request fails in transport, or it receives one response, a status   *)
(* and a body, and returns what it makes of it.                            *)
(***************************************************************************)
\* The JSON values a response carries under a key read as type ty: values of
\* the type, a string no enum knows, and null.
RespValues(ty) ==
    { JNull } \cup
    CASE ty = "bool" -> {JBool(TRUE), JBool(FALSE)}
      [] ty \in {"i64", "usize"} -> {JNum("0"), JNum("50")}
      [] ty = "f64" -> {JNum("0.5"), JNum("2")}
      [] ty = "str" -> {JStr("abc")}
      [] ty \in EnumTypes ->
            {JStr(WireName[ty][v]) : v \in ArgValues(ty)} \cup {JStr("zz")}
      [] ty = "RecordingsBucket" ->
            {SerializeStruct(RecordingsBucket, a) : a \in RecordingsBucketArgs}

\* A key no entity knows, and the values it is sent with.
UnknownKey == "brand_new_option"
UnknownValues == {JBool(TRUE), JStr("abc")}

\* The members a response may carry where the entity described by desc is
\* read: a key of the entity or the unknown key, with a value.
ResponseMembers(desc) ==
    UNION { { <<desc[f].key, j>> : j \in RespValues(desc[f].ty) } : f \in DOMAIN desc }
    \cup { <<UnknownKey, j>> : j \in UnknownValues }

\* The objects of at most n members a response may carry there.
RECURSIVE ResponseObjects(_, _)
ResponseObjects(desc, n) ==
    IF n = 0 THEN { <<>> }
    ELSE { <<>> } \cup
         { IF m[1] \in DOMAIN o THEN o ELSE (m[1] :> m[2]) @@ o :
             o \in ResponseObjects(desc, n - 1), m \in ResponseMembers(desc) }

\* The body of a room response whose config object is config.
RoomResponse(config) ==
    JObj([ id |-> JStr("5e3cf703"), name |-> JStr("abc"),
           api_created |-> JBool(TRUE), privacy |-> JStr("public"),
           url |-> JStr("https://acme.daily.co/abc"),
           created_at |-> JStr("2022-01-01T00:00:00.000Z"),
           config |-> JObj(config) ])

NoResponse == kind = "response" /\ parsed.op = "none"

RespInit ==
    /\ kind = "response"
    /\ self = New(kind)
    /\ lastArg = <<>>
    /\ ncalls = 0
    /\ lastCall = "none"
    /\ out = NoOut
    /\ response = JNull
    /\ parsed = NoOut
    /\ status = 0
    /\ client = NoClient
    /\ calls = <<>>
    /\ requests = <<>>

\* The variants of enum Error.
RequestError == [error |-> "Request"]
APIError(info) == [error |-> "APIError", info |-> info]
RequiresPagination == [error |-> "RequiresPagination"]
BadAPIKey(msg) == [error |-> "BadAPIKey", msg |-> msg]

\* StatusCode::is_success: the 2xx statuses.
is_success(st) == st >= 200 /\ st <= 299

\* `resp.json().await?`: the decoded value, or the Request error that `?`
\* makes of a decoding failure.
json_or_request_error(r) == IF r.ok THEN r ELSE Err(RequestError)

\* match resp.json().await { Ok(info) => APIError(info), Err(e) => Request(e) }
api_error_of(r) == IF r.ok THEN APIError(r.val) ELSE RequestError

\* A faulty classification that reports every failed request as a service
\* error without kind or info.
from_failed_daily_request_blank(body) ==
    APIError([error |-> None, info |-> None])

\* Error::from_failed_daily_request: the body of a failed request read as
\* DailyCoErrorInfo is an APIError, and a body that cannot be read so is the
\* Request error of the decoding.
from_failed_daily_request(body) ==
    api_error_of(DeserializeStruct(DailyCoErrorInfo, body))

\* A faulty parse_dailyco_response that decodes the body whatever the status.
parse_dailyco_response_any_status(desc, st, body) ==
    json_or_request_error(DeserializeStruct(desc, body))

\* parse_dailyco_response::<T>: a 2xx response is decoded as T (desc), a
\* decoding failure being a Request error; any other status is classified by
\* from_failed_daily_request.
parse_dailyco_response(desc, st, body) ==
    IF is_success(st)
    THEN json_or_request_error(DeserializeStruct(desc, body))
    ELSE Err(from_failed_daily_request(body))

\* The value of Ok(()).
Unit == <<>>

\* The statuses a response may have.
Statuses == {200, 204, 300, 404, 500}

\* Bodies the service or a proxy in front of it sends with a failure: the
\* structured error object, whole or in part, with a kind this library does
\* not know, and bodies that are not JSON or not an object.
ErrorBodies ==
    { JObj([error |-> JStr(w), info |-> JStr("room not found")]) :
        w \in { "authentication-error", "authorization-header-error",
                "json-parsing-error", "invalid-request-error",
                "rate-limit-error", "server-error", "not-found" } }
    \cup
    { JObj([error |-> JStr("server-error")]),
      JObj([info |-> JStr("try again")]),
      JObj([error |-> JStr("brand-new-error"), info |-> JStr("abc")]),
      JObj(<<>>),
      JArr(<<>>),
      NotJson("<html>502 Bad Gateway</html>"),
      NotJson("") }

\* The total_count values a listing reports.
TotalCounts == {0, 1, 2, 99, 100, 101, 150}

\* The lists of at most n items drawn from items.
RECURSIVE Lists(_, _)
Lists(items, n) ==
    IF n = 0 THEN { <<>> }
    ELSE { <<>> } \cup { Append(l, x) : l \in Lists(items, n - 1), x \in items }

\* The body of a listing response.
Listing(total_count, data) ==
    JObj([total_count |-> JNum(IntText[total_count]), data |-> JArr(data)])

\* The body of a recording as the service sends it.
RecordingResponse(id, state) ==
    JObj([ id |-> JStr(id), room_name |-> JStr("abc"), start_ts |-> JNum("50"),
           status |-> JStr(state), max_participants |-> JNum("2"),
           duration |-> JNum("50"), s3key |-> JStr("acme/abc/50"),
           mtgSessionId |-> JStr(id) ])

\* The body the service answers a well-formed call of op with, as a sample.
SampleBody(op) ==
    CASE op \in {"create_room", "get_room"} -> RoomResponse(<<>>)
      [] op = "create_meeting_token" -> JObj([token |-> JStr("eyJhbGciOi")])
      [] op = "get_meeting_token" -> JObj(<<>>)
      [] op = "get_rooms" -> Listing(1, <<RoomResponse(<<>>)>>)
      [] op = "delete_room" -> JObj([deleted |-> JBool(TRUE), name |-> JStr("abc")])
      [] op = "list_recordings" -> Listing(0, <<>>)

\* The bodies a call of op receives with status 200.
GoodBodies(op) ==
    CASE op = "get_room" ->
            { RoomResponse(config) :
                config \in ResponseObjects(RoomProperties, MaxRespKeys) }
            \cup { JObj((UnknownKey :> j) @@ RoomResponse(config).members) :
                     j \in UnknownValues,
                     config \in {<<>>, (UnknownKey :> JStr("abc"))} }
            \cup { JObj([RoomResponse(<<>>).members EXCEPT !.privacy = j]) :
                     j \in RespValues(Room.privacy.ty) }
      [] op = "get_meeting_token" ->
            { JObj(o) : o \in ResponseObjects(MeetingToken, MaxRespKeys) }
      [] op = "get_rooms" ->
            { Listing(n, rooms) :
                n \in TotalCounts,
                rooms \in Lists({ RoomResponse(<<>>),
                                  RoomResponse([enable_chat |-> JBool(TRUE)]) },
                                MaxPage) }
      [] op = "list_recordings" ->
            { Listing(n, recs) :
                n \in TotalCounts,
                recs \in Lists({ RecordingResponse(id, "finished") : id \in UuidTexts },
                               MaxPage) }
      [] OTHER -> { SampleBody(op) }

\* The type each operation reads the body of a 2xx response as.
ResponseType(op) ==
    CASE op \in {"create_room", "get_room"} -> Room
      [] op = "create_meeting_token" -> MeetingTokenResponse
      [] op = "get_meeting_token" -> MeetingToken
      [] op = "get_rooms" -> GetRoomsResponse
      [] op = "list_recordings" -> ListedRecordings

\* A faulty get_rooms that follows its documentation: it requires pagination
\* for more than 100 rooms only.
get_rooms_result_more_than(data) ==
    IF ~data.ok THEN data
    ELSE IF data.val.total_count > 100 THEN Err(RequiresPagination)
    ELSE Ok(data.val.data)

\* Client::get_rooms, once parse_dailyco_response::<GetRoomsResponse> has
\* given data: its error (`?`), or RequiresPagination if total_count >= 100,
\* or the data.
get_rooms_result(data) ==
    IF ~data.ok THEN data
    ELSE IF data.val.total_count >= 100 THEN Err(RequiresPagination)
    ELSE Ok(data.val.data)

\* What an operation makes of the result r of parse_dailyco_response:
\* CreateMeetingToken::send maps it to the token, get_rooms checks the
\* total_count, the others return it as it is.
Then(op, r) ==
    CASE op = "create_meeting_token" -> IF r.ok THEN Ok(r.val.token) ELSE r
      [] op = "get_rooms" -> get_rooms_result(r)
      [] OTHER -> r

\* What each operation returns on a response of status st and body body:
\* delete_room Ok(()) on a 2xx status and from_failed_daily_request
\* otherwise; the others what they make of parse_dailyco_response.
Returned(op, st, body) ==
    IF op = "delete_room"
    THEN IF is_success(st) THEN Ok(Unit) ELSE Err(from_failed_daily_request(body))
    ELSE Then(op, parse_dailyco_response(ResponseType(op), st, body))

\* One call of the operation op: the request fails in transport and the
\* operation returns the Request error (send().await?), or it receives a
\* response and returns what it makes of it. The responses: a 200 with each
\* of the good bodies, and every status with the sample body and with each of
\* the error bodies.
Receive(op) ==
    /\ NoResponse
    /\ \/ status' = 0 /\ response' = JNull
       \/ \E body \in GoodBodies(op) : status' = 200 /\ response' = body
       \/ \E st \in Statuses, body \in ErrorBodies \cup {SampleBody(op)} :
            status' = st /\ response' = body
    /\ parsed' = [op |-> op,
                  result |-> IF status' = 0 THEN Err(RequestError)
                             ELSE Returned(op, status', response')]
    /\ UNCHANGED <<kind, self, lastArg, ncalls, lastCall, out, client, calls, requests>>

create_room == Receive("create_room")
create_meeting_token == Receive("create_meeting_token")
get_room == Receive("get_room")
get_meeting_token == Receive("get_meeting_token")
get_rooms == Receive("get_rooms")
delete_room == Receive("delete_room")
list_recordings == Receive("list_recordings")

RespNext ==
    \/ create_room
    \/ create_meeting_token
    \/ get_room
    \/ get_meeting_token
    \/ get_rooms
    \/ delete_room
    \/ list_recordings

RespSpec == RespInit /\ [][RespNext]_vars

(***************************************************************************)
(* The rendering of errors. A run of ErrorSpec is one call of delete_room  *)
(* or get_rooms, followed, when it returned an error, by the caller's      *)
(* to_string() of the error and of its kind.                               *)
(***************************************************************************)
\* impl Display for DailyCoErrorKind
Display_DailyCoErrorKind(k) ==
    CASE k = "AuthenticationError" -> "authentication-error"
      [] k = "AuthorizationHeaderError" -> "authorization-header-error"
      [] k = "JsonParsingError" -> "json-parsing-error"
      [] k = "InvalidRequestError" -> "invalid-request-error"
      [] k = "RateLimitError" -> "rate-limit-error"
      [] k = "ServerError" -> "server-error"
      [] k = "NotFound" -> "not-found"

\* impl Display for DailyCoErrorInfo: serde_json::to_string_pretty of the
\* struct, its two fields in the order of declaration, each on a line of its
\* own indented by two spaces, a None written as null (the texts of the
\* model have no character that JSON escapes).
Display_DailyCoErrorInfo(info) ==
    "{\n  \"error\": "
    \o (IF IsNone(info.error) THEN "null"
        ELSE "\"" \o ToJson(DailyCoErrorInfo.error.ty, info.error[1]).v \o "\"")
    \o ",\n  \"info\": "
    \o (IF IsNone(info.info) THEN "null"
        ELSE "\"" \o ToJson(DailyCoErrorInfo.info.ty, info.info[1]).v \o "\"")
    \o "\n}"

\* A faulty rendering that leaves out what the service reported.
Display_Error_without_info(e) ==
    CASE e.error = "Request" -> "failure making the request"
      [] e.error = "APIError" -> "daily request returned an error"
      [] e.error = "BadAPIKey" -> "API key problem: " \o e.msg
      [] e.error = "RequiresPagination" ->
            "Response requires pagination, which is not implemented yet."

\* #[derive(Error)] on enum Error: the #[error("...")] text of each variant.
Display_Error(e) ==
    CASE e.error = "Request" -> "failure making the request"
      [] e.error = "APIError" ->
            "daily request returned an error: " \o Display_DailyCoErrorInfo(e.info)
      [] e.error = "BadAPIKey" -> "API key problem: " \o e.msg
      [] e.error = "RequiresPagination" ->
            "Response requires pagination, which is not implemented yet."

\* The caller renders the error an operation returned, and the kind the
\* service reported if the error has one.
to_string ==
    /\ kind = "response" /\ parsed.op # "none" /\ out = NoOut
    /\ ~parsed.result.ok
    /\ out' = [op |-> "to_string",
               text |-> Display_Error(parsed.result.err),
               kind_text |->
                   IF parsed.result.err.error = "APIError"
                      /\ IsSome(parsed.result.err.info.error)
                   THEN Some(Display_DailyCoErrorKind(parsed.result.err.info.error[1]))
                   ELSE None]
    /\ UNCHANGED <<kind, self, lastArg, ncalls, lastCall, response, parsed,
                   status, client, calls, requests>>

ErrorNext ==
    \/ delete_room
    \/ get_rooms
    \/ to_string

ErrorSpec == RespInit /\ [][ErrorNext]_vars

(***************************************************************************)
(* The construction of a Client. A run of KeySpec is one call of           *)
(* Client::new or Client::with_endpoint.                                   *)
(***************************************************************************)
\* The characters an API key is made of here, with the bytes of each in
\* UTF-8: two ASCII letters, a letter outside ASCII (U+00E9) and three ASCII
\* control characters.
Utf8 ==
    [ c \in {"k", "7", "e_acute", "TAB", "LF", "DEL"} |->
        CASE c = "k" -> <<107>>
          [] c = "7" -> <<55>>
          [] c = "e_acute" -> <<195, 169>>
          [] c = "TAB" -> <<9>>
          [] c = "LF" -> <<10>>
          [] c = "DEL" -> <<127>> ]

\* The API keys: the texts of 1 to n characters.
RECURSIVE Keys(_)
Keys(n) ==
    IF n = 0 THEN {}
    ELSE { <<c>> : c \in DOMAIN Utf8 } \cup
         { Append(key, c) : key \in Keys(n - 1), c \in DOMAIN Utf8 }

\* The bytes of a text.
RECURSIVE Bytes(_)
Bytes(text) ==
    IF text = <<>> THEN <<>> ELSE Utf8[Head(text)] \o Bytes(Tail(text))

\* format!("Bearer {}", key), in bytes.
Bearer(key) == <<66, 101, 97, 114, 101, 114, 32>> \o Bytes(key)

\* A faulty validation that accepts visible ASCII only.
is_valid_visible_ascii(b) == b >= 32 /\ b < 127

\* The bytes HeaderValue accepts (crate http, header/value.rs, is_valid):
\* everything but the control characters other than tab, and DEL.
is_valid(b) == (b >= 32 /\ b # 127) \/ b = 9

\* HeaderValue::try_from(String): the bytes of the text if each is valid.
HeaderValue_try_from(bytes) ==
    IF \A i \in DOMAIN bytes : is_valid(bytes[i]) THEN Ok(bytes) ELSE Err("InvalidHeaderValue")

\* A Url is its origin, the segments of its path and its query: a last
\* segment "" stands for a path that ends in "/".
\* const BASE_URL: "https://api.daily.co/v1/"
BASE_URL == [origin |-> "https://api.daily.co", path |-> <<"v1", "">>, query |-> None]

\* The endpoints with_endpoint is called with: "http://localhost:8080/" and
\* "https://proxy.example/daily/".
Endpoints ==
    { [origin |-> "http://localhost:8080", path |-> <<"">>, query |-> None],
      [origin |-> "https://proxy.example", path |-> <<"daily", "">>, query |-> None] }

\* Client::with_endpoint. built: whether reqwest's ClientBuilder::build
\* succeeds (it fails when the TLS backend cannot be initialised).
Client_with_endpoint(key, endpoint, built) ==
    LET header_val == HeaderValue_try_from(Bearer(key))
    IN  IF ~header_val.ok
        THEN Err(BadAPIKey("API key must include only ASCII characters"))
        ELSE IF ~built THEN Err(RequestError)
        ELSE Ok([base_url |-> endpoint, authorization |-> header_val.val])

\* Client::new
Client_new(key, built) == Client_with_endpoint(key, BASE_URL, built)

KeyInit ==
    /\ kind = "client"
    /\ self = New(kind)
    /\ lastArg = <<>>
    /\ ncalls = 0
    /\ lastCall = "none"
    /\ out = NoOut
    /\ response = JNull
    /\ parsed = NoOut
    /\ status = 0
    /\ client = NoClient
    /\ calls = <<>>
    /\ requests = <<>>

\* The caller keeps the Client the constructor returned, if it returned one.
Constructed(op, key, result) ==
    /\ kind = "client" /\ out = NoOut /\ client = NoClient
    /\ out' = [op |-> op, key |-> key, result |-> result]
    /\ client' = IF result.ok THEN result.val ELSE NoClient
    /\ UNCHANGED <<kind, self, lastArg, ncalls, lastCall, response, parsed,
                   status, calls, requests>>

new ==
    \E key \in Keys(MaxKeyLen), built \in BOOLEAN :
        Constructed("new", key, Client_new(key, built))

with_endpoint ==
    \E key \in Keys(MaxKeyLen), endpoint \in Endpoints, built \in BOOLEAN :
        Constructed("with_endpoint", key, Client_with_endpoint(key, endpoint, built))

KeyNext ==
    \/ new
    \/ with_endpoint

KeySpec == KeyInit /\ [][KeyNext]_vars

(***************************************************************************)
(* Url::join. A Url is its origin (scheme, host and port: "https://h"),    *)
(* the segments of its path (a last segment "" is a trailing slash) and    *)
(* its query. The strings joined here hold no "@", no "[", no digit and    *)
(* no non-ASCII character: credentials, IPv6 and IPv4 hosts and IDNA are   *)
(* not modelled.                                                           *)
(***************************************************************************)
\* The position of the first character of s at or after i that is in cs,
\* Len(s) + 1 if there is none.
RECURSIVE find(_, _, _)
find(s, i, cs) ==
    IF i > Len(s) \/ SubSeq(s, i, i) \in cs THEN i ELSE find(s, i + 1, cs)

\* The position of the first character of s at or after i that is not in
\* cs, Len(s) + 1 if there is none.
RECURSIVE skip(_, _, _)
skip(s, i, cs) ==
    IF i > Len(s) \/ SubSeq(s, i, i) \notin cs THEN i ELSE skip(s, i + 1, cs)

\* s from position i on.
From(s, i) == SubSeq(s, i, Len(s))

\* The parser drops the spaces (and C0 controls) around its input.
RECURSIVE trim(_)
trim(s) ==
    IF s = "" THEN s
    ELSE IF SubSeq(s, 1, 1) = " " THEN trim(From(s, 2))
    ELSE IF SubSeq(s, Len(s), Len(s)) = " " THEN trim(SubSeq(s, 1, Len(s) - 1))
    ELSE s

Lower ==
    {"a", "b", "c", "d", "e", "f", "g", "h", "i", "j", "k", "l", "m",
     "n", "o", "p", "q", "r", "s", "t", "u", "v", "w", "x", "y", "z"}

\* The characters of a scheme after its first, which is a letter.
SchemeChars == Lower \cup Upper \cup { Digit[i] : i \in DOMAIN Digit } \cup {"+", "-", "."}

\* The position of the ":" that ends the scheme input starts with, 0 if
\* input starts with no scheme.
scheme_end(input) ==
    LET p == skip(input, 1, SchemeChars)
    IN  IF /\ input # "" /\ SubSeq(input, 1, 1) \in Lower \cup Upper
           /\ p <= Len(input) /\ SubSeq(input, p, p) = ":"
        THEN p ELSE 0

RECURSIVE to_ascii_lowercase(_)
to_ascii_lowercase(s) ==
    IF s = "" THEN s
    ELSE ToAsciiLowercase(SubSeq(s, 1, 1)) \o to_ascii_lowercase(From(s, 2))

\* The schemes whose URLs have a host, and the port each has by default.
SpecialSchemes ==
    [ http |-> 80, https |-> 443, ws |-> 80, wss |-> 443, ftp |-> 21 ]

\* In a URL of a special scheme "\" is a "/".
Slashes == {"/", "\\"}

\* The percent-encoding of the characters of a path (the query's set is
\* smaller by "{" and "}", which no input holds; no input holds a quote).
RECURSIVE percent_encode(_)
percent_encode(s) ==
    IF s = "" THEN s
    ELSE LET c == SubSeq(s, 1, 1)
         IN  (CASE c = " " -> "%20" [] c = "<" -> "%3C" [] c = ">" -> "%3E"
                [] c = "{" -> "%7B" [] c = "}" -> "%7D" [] OTHER -> c)
             \o percent_encode(From(s, 2))

is_double_dot(seg) ==
    to_ascii_lowercase(seg) \in {"..", ".%2e", "%2e.", "%2e%2e"}

is_single_dot(seg) == to_ascii_lowercase(seg) \in {".", "%2e"}

\* The path state: the segments of input are pushed on path one by one; a
\* ".." segment pops the last one, a "." segment pushes nothing.
RECURSIVE parse_path(_, _)
parse_path(path, input) ==
    LET e == find(input, 1, Slashes)
        seg == SubSeq(input, 1, e - 1)
        last == e > Len(input)
        ends == IF last THEN <<"">> ELSE <<>>
        pushed == IF is_double_dot(seg)
                  THEN SubSeq(path, 1, Len(path) - 1) \o ends
                  ELSE IF is_single_dot(seg) THEN path \o ends
                  ELSE path \o <<percent_encode(seg)>>
    IN  IF last THEN pushed ELSE parse_path(pushed, From(input, e + 1))

\* The query of input, which starts where its path ended: after a "?", up
\* to a "#".
parse_query(input) ==
    IF input # "" /\ SubSeq(input, 1, 1) = "?"
    THEN Some(percent_encode(SubSeq(input, 2, find(input, 1, {"#"}) - 1)))
    ELSE None

\* The path and the query of input, pushed on the segments path of origin.
parse_path_start(origin, path, input) ==
    LET e == find(input, 1, {"?", "#"})
    IN  Ok([ origin |-> origin,
             path |-> parse_path(path, SubSeq(input, 1, e - 1)),
             query |-> parse_query(From(input, e)) ])

\* The number a text of digits writes.
RECURSIVE parse_u32(_)
parse_u32(s) ==
    IF s = "" THEN 0
    ELSE 10 * parse_u32(SubSeq(s, 1, Len(s) - 1))
         + (find("0123456789", 1, {SubSeq(s, Len(s), Len(s))}) - 1)

\* The characters a host cannot hold.
ForbiddenHost == {" ", "<", ">", "^", "|", "%", "[", "]", "@"}

\* After the slashes of "scheme://": the host and the port, up to the
\* path. A special scheme has no empty host; the default port is left out.
parse_host_and_port(scheme, input) ==
    LET e == find(input, 1, Slashes \cup {"?", "#"})
        c == find(input, 1, {":"})
        host == SubSeq(input, 1, (IF c < e THEN c ELSE e) - 1)
        port == SubSeq(input, c + 1, e - 1)
    IN  IF host = "" THEN Err("EmptyHost")
        ELSE IF find(host, 1, ForbiddenHost) <= Len(host)
        THEN Err("InvalidDomainCharacter")
        ELSE IF skip(port, 1, { Digit[i] : i \in DOMAIN Digit }) <= Len(port)
        THEN Err("InvalidPort")
        ELSE IF port # "" /\ parse_u32(port) > 65535 THEN Err("InvalidPort")
        ELSE parse_path_start(
                 scheme \o "://" \o to_ascii_lowercase(host)
                   \o (IF port = "" \/ parse_u32(port) = SpecialSchemes[scheme]
                       THEN "" ELSE ":" \o NatToStr(parse_u32(port))),
                 <<>>,
                 IF e <= Len(input) /\ SubSeq(input, e, e) \in Slashes
                 THEN From(input, e + 1) ELSE From(input, e))

\* The scheme of a Url.
scheme_of(url) == SubSeq(url.origin, 1, find(url.origin, 1, {":"}) - 1)

\* The relative state: input has no scheme, or the scheme of base.
parse_relative(base, input) ==
    IF input = "" THEN Ok(base)
    ELSE IF SubSeq(input, 1, 1) \in Slashes
    THEN IF Len(input) > 1 /\ SubSeq(input, 2, 2) \in Slashes
         THEN parse_host_and_port(scheme_of(base), From(input, skip(input, 1, Slashes)))
         ELSE parse_path_start(base.origin, <<>>, From(input, 2))
    ELSE IF SubSeq(input, 1, 1) = "?"
    THEN Ok([base EXCEPT !.query = parse_query(input)])
    ELSE IF SubSeq(input, 1, 1) = "#" THEN Ok(base)
    ELSE parse_path_start(base.origin, SubSeq(base.path, 1, Len(base.path) - 1), input)

\* Url::join: input parsed with base as the base URL. An input with a
\* scheme is a URL of its own, unless the scheme is the special scheme of
\* base; a URL of a scheme that is not special has no host here.
Url_join(base, text) ==
    LET input == trim(text)
        p == scheme_end(input)
        scheme == to_ascii_lowercase(SubSeq(input, 1, p - 1))
        rest == From(input, p + 1)
    IN  IF p = 0 THEN parse_relative(base, input)
        ELSE IF scheme \notin DOMAIN SpecialSchemes
        THEN Ok([origin |-> scheme \o ":", path |-> <<rest>>, query |-> None])
        ELSE IF scheme = scheme_of(base) THEN parse_relative(base, rest)
        ELSE parse_host_and_port(scheme, From(rest, skip(rest, 1, Slashes)))

(***************************************************************************)
(* The use of a Client. A run of ClientSpec makes up to MaxTasks calls of  *)
(* operations on one Client, shared or cloned; each call issues its        *)
(* request, waits for the response, and returns or is dropped, in any      *)
(* interleaving with the others.                                           *)
(***************************************************************************)
\* The outcome of a call that panicked.
Panic == [panic |-> TRUE]

\* Result::unwrap on the Url that join returned to url, itself unwrapped.
join_unwrap(url, input) ==
    IF url = Panic THEN Panic
    ELSE LET joined == Url_join(url, input)
         IN  IF joined.ok THEN joined.val ELSE Panic

\* Client::get_room_url_with_name
get_room_url_with_name(c, room_name) ==
    join_unwrap(join_unwrap(c.base_url, "rooms/"), room_name)

\* The arguments the operations are called with.
Args(op) ==
    CASE op = "create_room" -> {RoomBuilder_new}
      [] op = "create_meeting_token" -> {CreateMeetingToken_new}
      [] op \in {"get_room", "delete_room"} -> {"abc"}
      [] op = "get_meeting_token" -> {"eyJhbGciOi"}
      [] op \in {"get_rooms", "list_recordings"} -> {Unit}

\* A faulty request that goes to the default endpoint whatever the Client's.
RequestOf_default_endpoint(c, op, arg) ==
    [ method |-> IF op \in {"create_room", "create_meeting_token"} THEN "POST"
                 ELSE IF op = "delete_room" THEN "DELETE" ELSE "GET",
      url |-> join_unwrap(BASE_URL, "rooms/"),
      authorization |-> c.authorization,
      body |-> None ]

\* The request each operation issues on the Client c: the method, the url
\* made from c.base_url, the default Authorization header of c's
\* reqwest_client, and the JSON body if it has one.
RequestOf(c, op, arg) ==
    [ method |-> IF op \in {"create_room", "create_meeting_token"} THEN "POST"
                 ELSE IF op = "delete_room" THEN "DELETE" ELSE "GET",
      url |-> CASE op \in {"create_room", "get_rooms"} ->
                      join_unwrap(c.base_url, "rooms/")
                [] op = "create_meeting_token" ->
                      join_unwrap(c.base_url, "meeting-tokens/")
                [] op \in {"get_room", "delete_room"} ->
                      get_room_url_with_name(c, arg)
                [] op = "get_meeting_token" ->
                      join_unwrap(join_unwrap(c.base_url, "meeting-tokens/"), arg)
                [] op = "list_recordings" ->
                      [c.base_url EXCEPT !.path = @ \o <<"recordings">>],
      authorization |-> c.authorization,
      body |-> CASE op = "create_room" -> Some(create_room_body(arg))
                 [] op = "create_meeting_token" -> Some(MeetingTokenBody(arg))
                 [] OTHER -> None ]

\* The operations of a Client.
Operations ==
    { "create_room", "create_meeting_token", "get_room", "get_meeting_token",
      "get_rooms", "delete_room", "list_recordings" }

\* What a call receives for its request: no response (status 0), or a
\* response.
Outcomes(op) ==
    { [status |-> 0, body |-> JNull],
      [status |-> 200, body |-> SampleBody(op)],
      [status |-> 404,
       body |-> JObj([error |-> JStr("not-found"), info |-> JStr("room not found")])] }

\* A faulty continuation that sends the request again when it failed.
AfterSend_retrying(c, call, x) ==
    IF x.status = 0 \/ ~is_success(x.status)
    THEN [call |-> call, sends |-> <<RequestOf(c, call.op, call.arg)>>]
    ELSE [call |-> [call EXCEPT !.state = "returned", !.status = x.status,
                                !.body = x.body,
                                !.result = Returned(call.op, x.status, x.body)],
          sends |-> <<>>]

\* What an operation does once send().await is over: on a transport failure
\* it returns the Request error (`?`), on a response it returns what
\* Returned makes of it; either way it sends nothing more.
AfterSend(c, call, x) ==
    [call |-> [call EXCEPT !.state = "returned", !.status = x.status,
                           !.body = x.body,
                           !.result = IF x.status = 0 THEN Err(RequestError)
                                      ELSE Returned(call.op, x.status, x.body)],
     sends |-> <<>>]

\* The Clients of the runs: one from Client::new and one from
\* Client::with_endpoint for each endpoint.
Clients ==
    { Client_new(<<"k", "7">>, TRUE).val } \cup
    { Client_with_endpoint(<<"k">>, endpoint, TRUE).val : endpoint \in Endpoints }

ClientInit ==
    /\ kind = "client"
    /\ self = New(kind)
    /\ lastArg = <<>>
    /\ ncalls = 0
    /\ lastCall = "none"
    /\ out = NoOut
    /\ response = JNull
    /\ parsed = NoOut
    /\ status = 0
    /\ client \in Clients
    /\ calls = <<>>
    /\ requests = <<>>

\* A task calls an operation on the Client (&self): the request is built
\* from the Client and sent, and the call waits for the response.
Call ==
    /\ kind = "client" /\ client # NoClient
    /\ Len(calls) < MaxTasks
    /\ \E op \in Operations : \E arg \in Args(op) :
         /\ calls' = Append(calls, [op |-> op, arg |-> arg, state |-> "pending",
                                    status |-> 0, body |-> JNull, result |-> NoOut])
         /\ requests' = Append(requests, [call |-> Len(calls) + 1,
                                          request |-> RequestOf(client, op, arg)])
    /\ UNCHANGED <<kind, self, lastArg, ncalls, lastCall, out, response, parsed,
                   status, client>>

\* Call i goes on as next says: the call as it is then, and the requests
\* it sends.
Continue(i, next) ==
    /\ calls' = [calls EXCEPT ![i] = next.call]
    /\ requests' = requests \o
          [k \in DOMAIN next.sends |-> [call |-> i, request |-> next.sends[k]]]

\* A pending call gets the outcome of its request and returns.
Return ==
    /\ kind = "client"
    /\ \E i \in DOMAIN calls :
         /\ calls[i].state = "pending"
         /\ \E x \in Outcomes(calls[i].op) :
              Continue(i, AfterSend(client, calls[i], x))
    /\ UNCHANGED <<kind, self, lastArg, ncalls, lastCall, out, response, parsed,
                   status, client>>

\* The future of a pending call is dropped: the call is cancelled mid-flight.
Cancel ==
    /\ kind = "client"
    /\ \E i \in DOMAIN calls :
         /\ calls[i].state = "pending"
         /\ calls' = [calls EXCEPT ![i].state = "cancelled"]
    /\ UNCHANGED <<kind, self, lastArg, ncalls, lastCall, out, response, parsed,
                   status, client, requests>>

ClientNext ==
    \/ Call
    \/ Return
    \/ Cancel

ClientSpec == ClientInit /\ [][ClientNext]_vars

(***************************************************************************)
(* The strings of the callers. A run of UrlSpec makes one call of          *)
(* get_room, delete_room or get_meeting_token on a Client, with a room     *)
(* name or a token made of up to MaxParts of the pieces below.             *)
(***************************************************************************)
Pieces == {"abc", "..", "/", "\\", "?", "#", " ", "http:", "evil.example"}

RECURSIVE CallerStrings(_)
CallerStrings(n) ==
    IF n = 0 THEN {""}
    ELSE {""} \cup { s \o p : s \in CallerStrings(n - 1), p \in Pieces }

\* A call up to send(): the unwrap of a failed join panics; reqwest sends
\* nothing to a URL whose scheme is not http or https and send() returns
\* its error, which `?` returns as the Request error; any other request is
\* sent, with the Authorization header of the Client.
Issue(request) ==
    IF request.url = Panic
    THEN [state |-> "panicked", result |-> NoOut, sends |-> <<>>]
    ELSE IF scheme_of(request.url) \notin {"http", "https"}
    THEN [state |-> "returned", result |-> Err(RequestError), sends |-> <<>>]
    ELSE [state |-> "pending", result |-> NoOut, sends |-> <<request>>]

\* The call of op with arg begins as next says.
Started(op, arg, next) ==
    /\ calls' = <<[op |-> op, arg |-> arg, state |-> next.state, status |-> 0,
                   body |-> JNull, result |-> next.result]>>
    /\ requests' = [k \in DOMAIN next.sends |-> [call |-> 1, request |-> next.sends[k]]]

\* The first call on the Client: op, with a string of the caller.
CallNamed(op) ==
    /\ kind = "client" /\ client # NoClient
    /\ calls = <<>>
    /\ \E arg \in CallerStrings(MaxParts) :
         Started(op, arg, Issue(RequestOf(client, op, arg)))
    /\ UNCHANGED <<kind, self, lastArg, ncalls, lastCall, out, response, parsed,
                   status, client>>

get_room_named == CallNamed("get_room")

delete_room_named == CallNamed("delete_room")

get_meeting_token_of == CallNamed("get_meeting_token")

UrlNext ==
    \/ get_room_named
    \/ delete_room_named
    \/ get_meeting_token_of
    \/ Return
    \/ Cancel

UrlSpec == ClientInit /\ [][UrlNext]_vars

(***************************************************************************)
(* The reuse of a builder. A run of ReuseSpec has a CreateMeetingToken or  *)
(* a RoomBuilder and a Client: setter calls, in any order with sends       *)
(* (creates) of the builder, each send getting the outcome of its request. *)
(***************************************************************************)
\* The setters called in these runs.
ReuseSetters ==
    [ token |-> {"is_owner", "room_name"}, room |-> {"name", "enable_chat"} ]

ReuseInit ==
    /\ kind \in {"token", "room"}
    /\ self = New(kind)
    /\ lastArg = <<>>
    /\ ncalls = 0
    /\ lastCall = "none"
    /\ out = NoOut
    /\ response = JNull
    /\ parsed = NoOut
    /\ status = 0
    /\ client = Client_new(<<"k", "7">>, TRUE).val
    /\ calls = <<>>
    /\ requests = <<>>

\* A setter call on the builder, used or not.
ReuseSet ==
    \E name \in ReuseSetters[kind] :
        \E v \in SetterArgs(Setters(kind)[name]) : SetCall(kind, name, v)

\* A faulty send that consumes the builder: it leaves it as new() made it.
Use_consuming(op) ==
    /\ client # NoClient
    /\ Len(calls) < MaxTasks
    /\ \E x \in Outcomes(op) :
         calls' = Append(calls,
                         AfterSend(client,
                                   [op |-> op, arg |-> self, state |-> "pending",
                                    status |-> 0, body |-> JNull, result |-> NoOut,
                                    at |-> ncalls], x).call)
    /\ requests' = Append(requests, [call |-> Len(calls) + 1,
                                     request |-> RequestOf(client, op, self)])
    /\ self' = New(kind)
    /\ UNCHANGED <<kind, lastArg, ncalls, lastCall, out, response, parsed,
                   status, client>>

\* CreateMeetingToken::send(&self, client) and RoomBuilder::create(&self,
\* client), from the call to the return: the request is made from the
\* builder as it is and sent, and the call returns on the outcome. `at`
\* records how many setter calls preceded it.
Use(op) ==
    /\ client # NoClient
    /\ Len(calls) < MaxTasks
    /\ \E x \in Outcomes(op) :
         calls' = Append(calls,
                         AfterSend(client,
                                   [op |-> op, arg |-> self, state |-> "pending",
                                    status |-> 0, body |-> JNull, result |-> NoOut,
                                    at |-> ncalls], x).call)
    /\ requests' = Append(requests, [call |-> Len(calls) + 1,
                                     request |-> RequestOf(client, op, self)])
    /\ UNCHANGED <<kind, self, lastArg, ncalls, lastCall, out, response, parsed,
                   status, client>>

send == kind = "token" /\ Use("create_meeting_token")

\* CreateMeetingToken::self_sign(&self, domain_id, secret_key), in these runs
\* with the domain "acme" and the secret key "test-api-key".
self_sign ==
    /\ MTSelfSign
    /\ out'.domain_id = "acme" /\ out'.secret_key = "test-api-key"

create == kind = "room" /\ Use("create_room")

ReuseNext ==
    \/ ReuseSet
    \/ send
    \/ create
    \/ self_sign

ReuseSpec == ReuseInit /\ [][ReuseNext]_vars

(***************************************************************************)
(* Properties.                                                             *)
(***************************************************************************)
\* The value of field f of the builder: the identity fields of a RoomBuilder
\* are its own, its other fields those of its nested property bag.
Held(b, f) ==
    IF kind = "room" /\ f \notin {"name", "privacy"} THEN b.properties[f] ELSE b[f]

\* The fields of the builder.
Fields ==
    CASE kind = "token" -> DOMAIN CreateMeetingToken
      [] kind = "props" -> DOMAIN RoomPropertiesBuilder
      [] kind = "room" -> {"name", "privacy"} \cup DOMAIN RoomPropertiesBuilder_room
      [] kind \in {"response", "client"} -> {}

\* The type of field f of the builder.
FieldType(f) ==
    CASE kind = "token" -> CreateMeetingToken[f].ty
      [] kind = "props" -> RoomPropertiesBuilder[f].ty
      [] kind = "room" -> IF f \in {"name", "privacy"} THEN RoomBuilder[f].ty
                          ELSE RoomPropertiesBuilder_room[f].ty

\* C1: for a property-bag builder (CreateMeetingToken, RoomPropertiesBuilder)
\* in any state reached from new() by setter calls, the keys of its
\* serialized JSON object are exactly the fields whose setter was called: a
\* field never set is absent and a field set is present, also when set to
\* false or 0. This holds of the builder at any time and of what send and the
\* round trip serialized.
C1_SerializedKeysAreSetFields ==
    /\ kind = "token" =>
         DOMAIN SerializeStruct(CreateMeetingToken, self).members = Called
    /\ kind = "props" =>
         DOMAIN SerializeStruct(RoomPropertiesBuilder, self).members = Called
    /\ out.op = "send" => DOMAIN out.body.members.properties.members = Called
    /\ out.op = "roundtrip" => DOMAIN out.json.members = Called

\* A token request sent after is_owner(false) and nbf(0): both keys are in it.
C1_Witness ==
    /\ out.op = "send"
    /\ Called = {"is_owner", "nbf"}
    /\ lastArg.is_owner = FALSE /\ lastArg.nbf = 0
    /\ out.body.members.properties.members =
         [is_owner |-> JBool(FALSE), nbf |-> JNum("0")]

\* C2 as stated: every key of the body create_room sends, at the top level
\* and inside `properties`, belongs to a field whose setter was called (the
\* key `properties` read as belonging to the property fields set through it).
C2_EveryKeyWasSet ==
    out.op = "create" =>
        /\ \A k \in DOMAIN out.body.members :
             IF k = "properties" THEN Called \ {"name", "privacy"} # {}
             ELSE k \in Called
        /\ DOMAIN out.body.members.properties.members \subseteq Called

\* C2, amended: the body create_room sends always has the top-level key
\* `properties`, an empty object when no property setter was called; every
\* other top-level key and every key inside `properties` belongs to a field
\* whose setter was called.
C2_EveryKeyButPropertiesWasSet ==
    out.op = "create" =>
        /\ "properties" \in DOMAIN out.body.members
        /\ DOMAIN out.body.members \ {"properties"} \subseteq Called
        /\ DOMAIN out.body.members.properties.members \subseteq Called

\* A room created after name("abc") and enable_chat(false).
C2_Witness ==
    /\ out.op = "create"
    /\ Called = {"name", "enable_chat"}
    /\ DOMAIN out.body.members = {"name", "properties"}
    /\ DOMAIN out.body.members.properties.members = {"enable_chat"}

\* The claim name of a token field: the names the documentation gives, and
\* for the other fields the key of the like-named field of the renamed struct.
ClaimName(f) ==
    CASE f = "room_name" -> "r"
      [] f = "is_owner" -> "o"
      [] f = "eject_after_elapsed" -> "eje"
      [] f = "eject_at_token_exp" -> "ejt"
      [] OTHER -> MeetingTokenBuilderRenamed[f].key

\* The claims documented for a builder with the fields of lastArg set, signed
\* for domain_id: `d` and one claim per set field with the caller's value.
ExpectedClaims(domain_id) ==
    JObj(("d" :> JStr(domain_id)) @@
         [k \in {ClaimName(f) : f \in Called} |->
            LET f == CHOOSE g \in Called : ClaimName(g) = k
            IN  ToJson(CreateMeetingToken[f].ty, lastArg[f])])

\* The builder of the documented example.
ExampleBuilder ==
    ApplySetter(
        ApplySetter(
            ApplySetter(CreateMeetingToken_new,
                        CreateMeetingTokenSetters.room_name, "abc"),
            CreateMeetingTokenSetters.is_owner, TRUE),
        CreateMeetingTokenSetters.eject_after_elapsed, 50)

\* C3: for every meeting-token builder state and domain id D, the payload of
\* the self-signed token is exactly the claim d = D plus one claim per set
\* field, keyed by the field's short claim name, with the caller's value, and
\* no other claim; {room_name="abc", is_owner=true, eject_after_elapsed=50}
\* yields exactly {r:"abc", o:true, eje:50, d:D}.
C3_SelfSignedClaims ==
    /\ out.op = "self_sign" => out.claims = ExpectedClaims(out.domain_id)
    /\ \A D \in DomainIds :
         self_sign_token(ExampleBuilder, D) =
           JObj([r |-> JStr("abc"), o |-> JBool(TRUE), eje |-> JNum("50"),
                 d |-> JStr(D)])

\* A token self-signed for "acme" after room_name("abc") and is_owner(true).
C3_Witness ==
    /\ out.op = "self_sign" /\ out.domain_id = "acme"
    /\ Called = {"room_name", "is_owner"}
    /\ out.claims =
         JObj([r |-> JStr("abc"), o |-> JBool(TRUE), d |-> JStr("acme")])

\* The logical field a claim stands for.
FieldOfClaim(k) ==
    CHOOSE f \in DOMAIN MeetingTokenBuilderRenamed :
        MeetingTokenBuilderRenamed[f].key = k

\* The claims of a self-signed token without `d`, under their logical fields.
LogicalFields(claims) ==
    [f \in {FieldOfClaim(k) : k \in DOMAIN claims.members \ {"d"}} |->
        claims.members[MeetingTokenBuilderRenamed[f].key]]

\* C4: for every meeting-token builder state, the logical fields present in
\* the self-signed claims (without d) are the fields present in the
\* `properties` object sent to the issuance endpoint, with equal values, so
\* both decode to the same MeetingToken, the entity derived from the builder.
C4_EncodingsIsomorphic ==
    kind = "token" =>
        \A D \in DomainIds :
            LET logical == LogicalFields(self_sign_token(self, D))
                properties == MeetingTokenBody(self).members.properties
            IN  /\ logical = properties.members
                /\ DeserializeStruct(MeetingToken, JObj(logical))
                     = DeserializeStruct(MeetingToken, properties)
                /\ DeserializeStruct(MeetingToken, properties)
                     = Ok(MeetingToken_from(self))

\* A token self-signed after nbf(0) and user_name("abc"): its claims are the
\* properties a send would post, under the short names.
C4_Witness ==
    /\ out.op = "self_sign"
    /\ Called = {"nbf", "user_name"}
    /\ DOMAIN out.claims.members = {"d", "nbf", "u"}
    /\ LogicalFields(out.claims) = MeetingTokenBody(self).members.properties.members

\* The defaults documented for the fields of RoomProperties.
DocumentedRoomDefaults ==
    [ enable_screenshare |-> TRUE, enable_video_processing_ui |-> TRUE,
      enable_chat |-> FALSE, start_video_off |-> FALSE, start_audio_off |-> FALSE,
      owner_only_broadcast |-> FALSE, eject_at_room_exp |-> FALSE,
      enable_terse_logging |-> FALSE, lang |-> "En", signaling_imp |-> "Ws" ]

\* get_room has received a 2xx response whose body is a room object.
RoomReceived ==
    /\ parsed.op = "get_room"
    /\ is_success(status)
    /\ response.t = "obj"
    /\ "config" \in DOMAIN response.members

\* get_meeting_token has received a 2xx response whose body is an object.
TokenReceived ==
    /\ parsed.op = "get_meeting_token"
    /\ is_success(status)
    /\ response.t = "obj"

\* The members of the room response beside its config are those of a room:
\* its privacy is the one of the sample room.
RoomMembersSound == response.members.privacy = RoomResponse(<<>>).members.privacy

\* The config object of the room response, and the config of the Room decoded.
RoomConfigSent == response.members.config.members
RoomConfigRead == parsed.result.val.config

\* C5: a RoomProperties entity deserialized from a response object that lacks
\* a field with a documented default holds the default in it
\* (enable_screenshare and enable_video_processing_ui true; enable_chat,
\* start_video_off, start_audio_off, owner_only_broadcast, eject_at_room_exp
\* and enable_terse_logging false; lang En; signaling_imp Ws), and a field
\* present in the response holds the response's value. A response object that
\* lacks every field is deserialized.
C5_RoomPropertiesDefaults ==
    RoomReceived =>
        /\ (RoomConfigSent = <<>> /\ RoomMembersSound) => parsed.result.ok
        /\ parsed.result.ok =>
             \A f \in DOMAIN DocumentedRoomDefaults :
                 IF f \in DOMAIN RoomConfigSent
                 THEN ToJson(RoomProperties[f].ty, RoomConfigRead[f]) = RoomConfigSent[f]
                 ELSE RoomConfigRead[f] = DocumentedRoomDefaults[f]

\* A room read from a response whose config is {"enable_chat": true}.
C5_Witness ==
    /\ parsed.op = "get_room" /\ parsed.result.ok
    /\ RoomConfigSent = [enable_chat |-> JBool(TRUE)]
    /\ RoomConfigRead.enable_chat = TRUE
    /\ RoomConfigRead.enable_screenshare = TRUE
    /\ RoomConfigRead.lang = "En"

\* The six toggles of C6.
SixToggles ==
    { "enable_knocking", "enable_chat", "enable_hidden_participants",
      "enable_people_ui", "enable_network_ui", "enable_pip_ui" }

DocumentedTokenDefaults ==
    [ enable_screenshare |-> TRUE, eject_at_token_exp |-> FALSE,
      is_owner |-> FALSE, start_video_off |-> FALSE, start_audio_off |-> FALSE,
      enable_terse_logging |-> FALSE, start_cloud_recording |-> FALSE,
      close_tab_on_exit |-> FALSE ]

TokenFieldsWithoutDefault ==
    { "room_name", "eject_after_elapsed", "nbf", "exp", "user_name", "user_id",
      "enable_recording", "enable_prejoin_ui", "redirect_on_meeting_exit", "lang" }

\* C7: a MeetingToken entity deserialized from a response lacking a field
\* holds in it: true for enable_screenshare; false for eject_at_token_exp,
\* is_owner, start_video_off, start_audio_off, enable_terse_logging,
\* start_cloud_recording and close_tab_on_exit; None for every field without a
\* documented default. A response that lacks every field is deserialized.
C7_MeetingTokenDefaults ==
    TokenReceived =>
        /\ response.members = <<>> => parsed.result.ok
        /\ parsed.result.ok =>
             /\ \A f \in DOMAIN DocumentedTokenDefaults \ DOMAIN response.members :
                    parsed.result.val[f] = DocumentedTokenDefaults[f]
             /\ \A f \in TokenFieldsWithoutDefault \ DOMAIN response.members :
                    parsed.result.val[f] = None

\* A token read from the response {"is_owner": true, "nbf": 50}.
C7_Witness ==
    /\ parsed.op = "get_meeting_token" /\ parsed.result.ok
    /\ response.members = [is_owner |-> JBool(TRUE), nbf |-> JNum("50")]
    /\ parsed.result.val.enable_screenshare = TRUE
    /\ parsed.result.val.start_video_off = FALSE
    /\ parsed.result.val.room_name = None
    /\ parsed.result.val.exp = None

\* The entity the builder round-trips to.
EntityTable ==
    CASE kind = "token" -> MeetingToken
      [] kind = "props" -> RoomProperties

\* C8 as stated: for every property-bag field f and every value v, a builder
\* on which f was set to v, serialized to JSON and deserialized as the entity
\* (RoomPropertiesBuilder -> RoomProperties, CreateMeetingToken ->
\* MeetingToken), yields an entity whose field f holds exactly v.
C8_RoundTripPreserves ==
    out.op = "roundtrip" =>
        /\ out.entity.ok
        /\ \A f \in Called :
             IF EntityTable[f].option THEN out.entity.val[f] = Some(lastArg[f])
             ELSE out.entity.val[f] = lastArg[f]

\* What is serialized for field f of the builder.
Serialized(b, f) ==
    CASE kind = "token" -> SerializeStruct(CreateMeetingToken, b).members[f]
      [] kind = "props" -> SerializeStruct(RoomPropertiesBuilder, b).members[f]
      [] kind = "room" ->
            IF f \in {"name", "privacy"} THEN create_room_body(b).members[f]
            ELSE create_room_body(b).members.properties.members[f]

\* The value held and serialized for each field is the argument of the most
\* recent call of its setter.
LastWriteHeld ==
    \A f \in Called :
        /\ Held(self, f) = Some(lastArg[f])
        /\ Serialized(self, f) = ToJson(FieldType(f), lastArg[f])

\* C9: after any sequence of setter calls on a builder (RoomBuilder,
\* RoomPropertiesBuilder, CreateMeetingToken) the value held and serialized
\* for each field is the argument of the most recent call of that field's
\* setter, and a setter call that repeats the argument its field was last
\* given changes nothing.
C9_LastWriteWins ==
    /\ []LastWriteHeld
    /\ [][lastCall' = "same" => self' = self]_vars

\* A token request sent after is_owner was set twice, to a new value the
\* second time.
C9_Witness ==
    /\ out.op = "send" /\ ncalls = 2 /\ lastCall = "changed"
    /\ Called = {"is_owner"} /\ lastArg.is_owner = TRUE
    /\ self.is_owner = Some(TRUE)
    /\ out.body.members.properties.members = [is_owner |-> JBool(TRUE)]

\* C10: a setter call changes only its own field and leaves every other field
\* of the builder unchanged, no operation on a builder returns a set field to
\* the unset state or changes the builder, and so the set of set fields only
\* grows.
C10_NoFieldReverts ==
    [][ /\ \A f \in Fields :
             /\ IsSome(Held(self, f)) => IsSome(Held(self', f))
             /\ Held(self', f) # Held(self, f) =>
                  /\ ncalls' = ncalls + 1
                  /\ f \in Called'
                  /\ f \notin Called \/ lastArg'[f] # lastArg[f]
        /\ {f \in Fields : IsSome(Held(self, f))}
             \subseteq {f \in Fields : IsSome(Held(self', f))}
        /\ ncalls' = ncalls => self' = self ]_vars

\* A property bag after lang(Es) and then enable_chat(false): both are held.
C10_Witness ==
    /\ kind = "props" /\ ncalls = 2 /\ lastCall = "first"
    /\ Called = {"lang", "enable_chat"}
    /\ self.lang = Some("Es") /\ self.enable_chat = Some(FALSE)
    /\ \A f \in Fields \ Called : IsNone(self[f])

\* The kinds of error the service reports, by the text it reports them with.
ErrorKindOnWire ==
    [ w \in { "authentication-error", "authorization-header-error",
              "json-parsing-error", "invalid-request-error", "rate-limit-error",
              "server-error", "not-found" } |->
        CASE w = "authentication-error" -> "AuthenticationError"
          [] w = "authorization-header-error" -> "AuthorizationHeaderError"
          [] w = "json-parsing-error" -> "JsonParsingError"
          [] w = "invalid-request-error" -> "InvalidRequestError"
          [] w = "rate-limit-error" -> "RateLimitError"
          [] w = "server-error" -> "ServerError"
          [] w = "not-found" -> "NotFound" ]

\* An operation has returned on a response whose status is not 2xx.
FailedResponse == parsed.op # "none" /\ status # 0 /\ ~is_success(status)

\* The body is the structured error object: an object whose error, if it
\* has one, is a kind of the service and whose info, if it has one, is text.
StructuredError(body) ==
    /\ body.t = "obj"
    /\ "error" \in DOMAIN body.members =>
          /\ body.members.error.t = "str"
          /\ body.members.error.v \in DOMAIN ErrorKindOnWire
    /\ "info" \in DOMAIN body.members => body.members.info.t = "str"

\* What the structured error object reports.
Reported(body) ==
    [ error |-> IF "error" \in DOMAIN body.members
                THEN Some(ErrorKindOnWire[body.members.error.v]) ELSE None,
      info |-> IF "info" \in DOMAIN body.members
               THEN Some(body.members.info.v) ELSE None ]

\* C11: an operation that receives a non-2xx response whose body is the
\* structured error object returns Error::APIError carrying exactly the kind
\* and the info text the service reported; one that receives a non-2xx
\* response whose body is not JSON returns Error::Request; and APIError is
\* returned for a JSON object only, never for a body that is not JSON.
C11_FailedResponseClassified ==
    FailedResponse =>
        /\ ~parsed.result.ok
        /\ StructuredError(response) =>
              parsed.result.err = APIError(Reported(response))
        /\ response.t = "text" => parsed.result.err = RequestError
        /\ parsed.result.err.error = "APIError" => response.t = "obj"

\* get_room has received 404 {"error":"not-found","info":"room not found"}
\* and returned APIError with NotFound and that text.
C11_Witness ==
    /\ parsed.op = "get_room" /\ status = 404
    /\ response = JObj([error |-> JStr("not-found"), info |-> JStr("room not found")])
    /\ parsed.result = Err(APIError([error |-> Some("NotFound"),
                                     info |-> Some("room not found")]))

\* The client operations that parse the body of their response, with the
\* type each reads it as.
BodyType ==
    [ create_room |-> Room, create_meeting_token |-> MeetingTokenResponse,
      get_room |-> Room, get_meeting_token |-> MeetingToken,
      get_rooms |-> GetRoomsResponse ]

ClientOperations == DOMAIN BodyType \cup {"delete_room"}

\* The body of the response decodes into the type the operation reads.
Decodable == DeserializeStruct(BodyType[parsed.op], response).ok

\* C12: no client operation returns Ok for a non-2xx response (or without a
\* response); an operation that parses a body, given a 2xx response, returns
\* Error::Request when the body does not decode into its entity and returns
\* Ok when it does (get_rooms: unless pagination is required); delete_room
\* returns Ok(()) exactly when the status is 2xx, and an error when the
\* service answers 404 not-found.
C12_OkOnlyForDecodedSuccess ==
    parsed.op \in ClientOperations =>
        /\ parsed.result.ok => is_success(status)
        /\ (parsed.op \in DOMAIN BodyType /\ is_success(status)) =>
              IF Decodable
              THEN \/ parsed.result.ok
                   \/ parsed.op = "get_rooms" /\ parsed.result = Err(RequiresPagination)
              ELSE parsed.result = Err(RequestError)
        /\ parsed.op = "delete_room" =>
              /\ parsed.result.ok <=> is_success(status)
              /\ parsed.result.ok => parsed.result.val = Unit

\* delete_room of a room that does not exist: the service answers 404 with
\* not-found and the operation returns that error.
C12_Witness ==
    /\ parsed.op = "delete_room" /\ status = 404
    /\ response.t = "obj" /\ "error" \in DOMAIN response.members
    /\ response.members.error = JStr("not-found")
    /\ ~parsed.result.ok
    /\ parsed.result.err.error = "APIError"
    /\ parsed.result.err.info.error = Some("NotFound")

\* op has received a 2xx response whose body is a listing: an object with a
\* total_count and a data list that decode.
ListingReceived(op, desc) ==
    /\ parsed.op = op
    /\ is_success(status)
    /\ DeserializeStruct(desc, response).ok

\* The total_count the listing reports and the items of its data list.
ReportedTotal == ParseInt(response.members.total_count.v)[1]
ReportedData == response.members.data.items

C14_PaginationAbove100 ==
    ListingReceived("get_rooms", GetRoomsResponse) =>
        /\ parsed.result = Err(RequiresPagination) <=> ReportedTotal > 100
        /\ ReportedTotal <= 100 => parsed.result.ok

\* C15 as stated: a listing operation (get_rooms, ListRecordings::send) that
\* receives a 2xx listing whose total_count is greater than the number of
\* items in data fails with the pagination-required error.
C15_TruncatedListingFails ==
    (\/ ListingReceived("get_rooms", GetRoomsResponse)
     \/ ListingReceived("list_recordings", ListedRecordings)) =>
        (ReportedTotal > Len(ReportedData) =>
            parsed.result = Err(RequiresPagination))

\* A constructor has been called with an API key that has a character
\* outside ASCII.
NonAsciiKey ==
    /\ out.op \in {"new", "with_endpoint"}
    /\ \E i \in DOMAIN out.key : \E j \in DOMAIN Utf8[out.key[i]] :
           Utf8[out.key[i]][j] >= 128

\* C16 as stated: Client::new and Client::with_endpoint return
\* Err(Error::BadAPIKey) for every API key that contains a non-ASCII
\* character, no Client is constructed and no request is issued.
C16_NonAsciiKeyRejected ==
    NonAsciiKey =>
        /\ ~out.result.ok
        /\ out.result.err.error = "BadAPIKey"
        /\ client = NoClient
        /\ calls = <<>>

\* The methods and the paths below the endpoint that the documentation of
\* the service gives the operations (the room is "abc", the token
\* "eyJhbGciOi").
DocumentedMethod ==
    [ create_room |-> "POST", create_meeting_token |-> "POST", get_room |-> "GET",
      get_meeting_token |-> "GET", get_rooms |-> "GET", delete_room |-> "DELETE",
      list_recordings |-> "GET" ]

DocumentedPath ==
    [ create_room |-> <<"rooms", "">>, create_meeting_token |-> <<"meeting-tokens", "">>,
      get_room |-> <<"rooms", "abc">>, get_meeting_token |-> <<"meeting-tokens", "eyJhbGciOi">>,
      get_rooms |-> <<"rooms", "">>, delete_room |-> <<"rooms", "abc">>,
      list_recordings |-> <<"", "recordings">> ]

\* Call i issued the request the operation issues when it runs alone on the
\* Client: its method, the Client's endpoint followed by its path, and the
\* Client's credential.
RequestAsAlone(i) ==
    \E k \in DOMAIN requests :
        /\ requests[k].call = i
        /\ requests[k].request.method = DocumentedMethod[calls[i].op]
        /\ requests[k].request.url.origin = client.base_url.origin
        /\ requests[k].request.url.path =
              SubSeq(client.base_url.path, 1, Len(client.base_url.path) - 1)
                 \o DocumentedPath[calls[i].op]
        /\ requests[k].request.authorization = client.authorization

\* Call i returned what the operation returns on its own response, and what
\* every other call of the same operation returned on the same response.
ResultAsAlone(i) ==
    calls[i].state = "returned" =>
        /\ calls[i].result = IF calls[i].status = 0 THEN Err(RequestError)
                             ELSE Returned(calls[i].op, calls[i].status, calls[i].body)
        /\ \A j \in DOMAIN calls :
              (/\ calls[j].state = "returned" /\ calls[j].op = calls[i].op
               /\ calls[j].status = calls[i].status /\ calls[j].body = calls[i].body)
              => calls[j].result = calls[i].result

\* C18: no step of an operation on the Client, whether the call succeeds,
\* fails or is cancelled mid-flight, changes the Client's base_url or its
\* credential header; and in every interleaving of the calls each call has
\* issued the request, and returned on its response the result, that the
\* operation issues and returns when it runs alone.
C18_ClientImmutable ==
    /\ [](\A i \in DOMAIN calls : RequestAsAlone(i) /\ ResultAsAlone(i))
    /\ [][client' = client]_vars

\* On a Client with a custom endpoint, a delete_room that was called first
\* has been cancelled while a get_room called after it has returned the room.
C18_Witness ==
    /\ client.base_url # BASE_URL
    /\ Len(calls) = 2
    /\ calls[1].op = "delete_room" /\ calls[1].state = "cancelled"
    /\ calls[2].op = "get_room" /\ calls[2].state = "returned" /\ calls[2].result.ok

\* The requests call i has issued.
RequestsOf(i) == { k \in DOMAIN requests : requests[k].call = i }

\* C19: every call of a client operation issues at most one HTTP request,
\* and the step in which a call gets a transport failure or a non-2xx
\* response returns the error to the caller and issues no request.
C19_NoRetry ==
    /\ [](\A i \in DOMAIN calls : Cardinality(RequestsOf(i)) <= 1)
    /\ [][\A i \in DOMAIN calls :
            (calls[i].state = "pending" /\ calls'[i] # calls[i]) =>
                /\ requests' = requests
                /\ calls'[i].state \in {"returned", "cancelled"}
                /\ (calls'[i].state = "returned" /\ ~is_success(calls'[i].status)) =>
                      ~calls'[i].result.ok]_vars

\* A call got no response and returned the Request error, another got a 404
\* and returned the service's error: two calls, two requests.
C19_Witness ==
    /\ Len(calls) = 2 /\ Len(requests) = 2
    /\ calls[1].state = "returned" /\ calls[1].status = 0
    /\ calls[1].result = Err(RequestError)
    /\ calls[2].state = "returned" /\ calls[2].status = 404
    /\ ~calls[2].result.ok

\* The object j without the keys the entity described by desc does not know.
WithoutUnknownKeys(desc, j) ==
    JObj([k \in { k \in DOMAIN j.members : \E f \in DOMAIN desc : desc[f].key = k }
            |-> j.members[k]])

\* The response without the keys unknown to the schema of the entity read:
\* those of the MeetingToken; those of the Room and of the RoomProperties
\* in its config.
KnownPart ==
    IF parsed.op = "get_meeting_token" THEN WithoutUnknownKeys(MeetingToken, response)
    ELSE JObj([WithoutUnknownKeys(Room, response).members EXCEPT
                 !.config = IF @.t = "obj" THEN WithoutUnknownKeys(RoomProperties, @)
                            ELSE @])

\* C20: the entity (Room with its RoomProperties, MeetingToken) read from
\* a 2xx response object is the entity read from the same object without the keys
\* unknown to the schema; in particular an object that is read without the
\* unknown keys is read with them.
C20_UnknownKeysIgnored ==
    (RoomReceived \/ TokenReceived) =>
        parsed.result = Returned(parsed.op, status, KnownPart)

\* A room read from a response that has an unknown key beside its fields and
\* another in its config.
C20_Witness ==
    /\ RoomReceived
    /\ UnknownKey \in DOMAIN response.members
    /\ UnknownKey \in DOMAIN response.members.config.members
    /\ parsed.result.ok
    /\ parsed.result.val.name = "abc"

\* The body of the request that call i of the builder emitted.
BodySent(i) == requests[i].request.body[1]

\* The object in which the body carries the builder's own options.
OptionsSent(i) ==
    IF kind = "token" THEN BodySent(i).members.properties.members
    ELSE BodySent(i).members

\* C17: create, send and self_sign leave every field of the builder
\* unchanged, whether the call succeeds or fails (a step that is not a setter
\* call changes no field); two sends of the builder with no setter call in
\* between emit identical request bodies; a setter call leaves the requests
\* already emitted as they are, and a send that follows it emits the
\* argument it set.
C17_SendKeepsBuilder ==
    /\ [](\A i \in DOMAIN calls :
            /\ \A j \in DOMAIN calls :
                  calls[i].at = calls[j].at => BodySent(i) = BodySent(j)
            /\ calls[i].at = ncalls =>
                  \A f \in {"is_owner", "room_name", "name"} \cap Called :
                      OptionsSent(i)[f] = ToJson(FieldType(f), lastArg[f]))
    /\ [][/\ ncalls' = ncalls => self' = self
          /\ ncalls' # ncalls => requests' = requests]_vars

\* A token builder was sent with is_owner(false) and the send failed with a
\* 404; is_owner(true) was then called and the builder sent again: the first
\* request says false, the second true.
C17_Witness ==
    /\ kind = "token" /\ Len(calls) = 2
    /\ calls[1].at = 1 /\ calls[2].at = 2
    /\ calls[1].status = 404 /\ ~calls[1].result.ok
    /\ "is_owner" \in DOMAIN OptionsSent(1)
    /\ OptionsSent(1).is_owner = JBool(FALSE)
    /\ OptionsSent(2).is_owner = JBool(TRUE)
    /\ self.is_owner = Some(TRUE)

\* C23: for every meeting-token builder state, MeetingToken::from(builder)
\* is the MeetingToken read back from the builder's own JSON: the entity of
\* an `into` equals the one a round trip of the same builder gives, and the
\* entity of a round trip equals the one `into` gives (unset booleans take
\* the same defaults on both paths, unset optional fields are None on both).
C23_IntoAgreesWithRoundTrip ==
    kind = "token" =>
        /\ out.op = "into" =>
              Ok(out.entity) = DeserializeStruct(MeetingToken,
                                   SerializeStruct(CreateMeetingToken, self))
        /\ out.op = "roundtrip" =>
              /\ out.entity = Ok(MeetingToken_from(self))
              /\ \A f \in DOMAIN MeetingToken \ Called :
                    out.entity.val[f] =
                        IF MeetingToken[f].option THEN None
                        ELSE f = "enable_screenshare"

\* A builder with is_owner(true) and user_name("abc") converted with `into`:
\* the entity has them, enable_screenshare true and the other booleans false.
C23_Witness ==
    /\ out.op = "into"
    /\ Called = {"is_owner", "user_name"}
    /\ out.entity.is_owner /\ out.entity.user_name = Some("abc")
    /\ out.entity.enable_screenshare /\ ~out.entity.start_video_off
    /\ out.entity.lang = None

\* The steps that are a call of RoomPropertiesBuilder::sfu_always and of
\* RoomPropertiesBuilder::sfu_switchover(x).
SfuAlways == SetCall("props", "sfu_always", "()")
SfuSwitchover(x) == SetCall("props", "sfu_switchover", x)

\* C24: sfu_always() is sfu_switchover(0.5): from any builder state a call
\* of one is a step the other makes too, to the same builder; sfu_always
\* overrides the value of an earlier sfu_switchover(x) and a later
\* sfu_switchover(x) overrides sfu_always; and the properties of a builder
\* whose last such call was sfu_always are written with sfu_switchover 0.5
\* and read back as Some(0.5).
C24_SfuAlwaysIsSwitchoverHalf ==
    /\ []((kind = "props" /\ out.op = "roundtrip" /\ "sfu_switchover" \in Called
           /\ self.sfu_switchover = Some("0.5")) =>
            /\ out.json.members.sfu_switchover = JNum("0.5")
            /\ out.entity.ok
            /\ out.entity.val.sfu_switchover = Some("0.5"))
    /\ [][kind = "props" =>
            /\ SfuAlways <=> SfuSwitchover("0.5")
            /\ SfuAlways => self'.sfu_switchover = Some("0.5")
            /\ \A x \in ArgValues("f64") :
                  SfuSwitchover(x) => self'.sfu_switchover = Some(x)]_vars

\* sfu_always called on a builder that had sfu_switchover(2.0), and the
\* builder written and read back: the entity has Some(0.5).
C24_Witness ==
    /\ kind = "props" /\ ncalls = 2 /\ lastCall = "changed"
    /\ Called = {"sfu_switchover"}
    /\ self.sfu_switchover = Some("0.5")
    /\ self = ApplySetter(ApplySetter(RoomPropertiesBuilder_new,
                                      RoomPropertiesBuilderSetters.sfu_switchover, "2.0"),
                          RoomPropertiesBuilderSetters.sfu_always, "()")
    /\ out.op = "roundtrip"
    /\ out.entity.val.sfu_switchover = Some("0.5")

\* The identity fields of a RoomBuilder.
IdentityFields == {"name", "privacy"}

\* C25: the body create_room sends has name and privacy, when set, as
\* top-level keys only, and every property-bag field that was set inside the
\* nested `properties` object only, each with the value set; the body
\* create_meeting_token sends has the single top-level key `properties`, an
\* object with all the builder fields that were set.
C25_RequestBodyShape ==
    /\ out.op = "create" =>
         LET top == out.body.members
             nested == top.properties.members
         IN  /\ DOMAIN top \ {"properties"} = Called \cap IdentityFields
             /\ "properties" \in DOMAIN top
             /\ DOMAIN nested = Called \ IdentityFields
             /\ DOMAIN nested \subseteq DOMAIN RoomPropertiesBuilder_room
             /\ \A f \in Called :
                  (IF f \in IdentityFields THEN top[f] ELSE nested[f])
                      = ToJson(FieldType(f), lastArg[f])
    /\ out.op = "send" =>
         /\ DOMAIN out.body.members = {"properties"}
         /\ DOMAIN out.body.members.properties.members = Called
         /\ \A f \in Called :
              out.body.members.properties.members[f] = ToJson(FieldType(f), lastArg[f])

\* A room created after privacy(private) and nbf(50): privacy at the top
\* level, nbf inside `properties`.
C25_Witness ==
    /\ out.op = "create"
    /\ Called = {"privacy", "nbf"}
    /\ out.body = JObj([privacy |-> JStr("private"),
                        properties |-> JObj([nbf |-> JNum("50")])])

\* C28: no two of the 18 builder fields are written under the same claim
\* key and none under `d`; so the payload of every self-signed token has one
\* claim per set field and the claim d, which holds the domain id.
C28_ClaimNamesInjective ==
    /\ Cardinality(DOMAIN MeetingTokenBuilderRenamed) = 18
    /\ \A f, g \in DOMAIN MeetingTokenBuilderRenamed :
         /\ MeetingTokenBuilderRenamed[f].key # SelfSigningTokenPayload.d.key
         /\ MeetingTokenBuilderRenamed[f].key = MeetingTokenBuilderRenamed[g].key
              => f = g
    /\ out.op = "self_sign" =>
         /\ Cardinality(DOMAIN out.claims.members) = 1 + Cardinality(Called)
         /\ out.claims.members.d = JStr(out.domain_id)
         /\ \A f \in Called :
              /\ MeetingTokenBuilderRenamed[f].key \in DOMAIN out.claims.members
              /\ out.claims.members[MeetingTokenBuilderRenamed[f].key]
                    = ToJson(FieldType(f), lastArg[f])

\* A token self-signed for "D" after user_name("abc") and user_id(""):
\* three claims, `u`, `ud` and `d`.
C28_Witness ==
    /\ out.op = "self_sign" /\ out.domain_id = "D"
    /\ Called = {"user_name", "user_id"}
    /\ lastArg.user_name = "abc" /\ lastArg.user_id = ""
    /\ DOMAIN out.claims.members = {"u", "ud", "d"}

\* C22: self_sign is total: for every builder state, domain id and secret
\* key, encode returns a token, so the expect does not panic, and the token
\* has three segments: the header of an HS256 JWT, the payload with the
\* claims, and the signature of both under the secret key.
C22_SelfSignTotal ==
    out.op = "self_sign" =>
        /\ out.token.ok
        /\ Len(out.token.val) = 3
        /\ out.token.val[1].b64 = [typ |-> "JWT", alg |-> "HS256"]
        /\ out.token.val[2].b64 = out.claims
        /\ out.token.val[2].b64.t = "obj"
        /\ out.token.val[3].b64.key = out.secret_key
        /\ out.token.val[3].b64.message = <<out.token.val[1].b64, out.token.val[2].b64>>

\* A token self-signed with the empty secret key by a builder with two
\* fields set.
C22_Witness ==
    /\ out.op = "self_sign" /\ out.secret_key = "" /\ out.domain_id = "acme"
    /\ Called = {"room_name", "exp"}
    /\ out.token.ok
    /\ Len(out.token.val) = 3

\* The object o, read as the entity described by desc, has under the key of
\* an enum field a string that is no variant of the enum.
UnknownVariantIn(desc, o) ==
    \E f \in DOMAIN desc :
        /\ desc[f].ty \in EnumTypes
        /\ desc[f].key \in DOMAIN o
        /\ o[desc[f].key].t = "str"
        /\ \A v \in Variants[desc[f].ty] : WireName[desc[f].ty][v] # o[desc[f].key].v

\* C29: a 2xx response whose Room (its privacy; the lang, signaling_imp,
\* geo, rtmp_geo of its config) or MeetingToken (its enable_recording, lang)
\* has a string that is no known variant makes the operation return
\* Error::Request: no entity, and no APIError.
C29_UnknownVariantIsRequestError ==
    /\ RoomReceived =>
         ((\/ UnknownVariantIn(Room, response.members)
           \/ /\ response.members.config.t = "obj"
              /\ UnknownVariantIn(RoomProperties, response.members.config.members))
            => parsed.result = Err(RequestError))
    /\ TokenReceived =>
         (UnknownVariantIn(MeetingToken, response.members)
            => parsed.result = Err(RequestError))

\* A room response whose config has a region no variant names, beside a
\* known language: the operation returned the Request error.
C29_Witness ==
    /\ RoomReceived
    /\ DOMAIN response.members.config.members = {"geo", "lang"}
    /\ response.members.config.members.geo = JStr("zz")
    /\ response.members.config.members.lang = JStr("es")
    /\ parsed.result = Err(RequestError)

\* C30 as stated: Client::new and Client::with_endpoint return
\* Err(BadAPIKey("API key must include only ASCII characters")) only for a
\* key that has a non-ASCII character, and a key of ASCII characters only,
\* control characters included, is not rejected: the constructor returns
\* Ok(Client) (or the Request error of a reqwest client that cannot be
\* built, which is not about the key).
C30_OnlyNonAsciiKeyRejected ==
    out.op \in {"new", "with_endpoint"} =>
        /\ out.result = Err(BadAPIKey("API key must include only ASCII characters"))
             => NonAsciiKey
        /\ ~NonAsciiKey => (out.result.ok \/ out.result = Err(RequestError))

\* The text has the part in it.
Contains(text, part) ==
    \E i \in 1 .. (Len(text) - Len(part) + 1) :
        SubSeq(text, i, i + Len(part) - 1) = part

\* The JSON text the response has under key: a string in quotes, or null
\* when it has none.
AsSent(key) ==
    IF key \in DOMAIN response.members /\ response.members[key].t = "str"
    THEN "\"" \o response.members[key].v \o "\""
    ELSE "null"

\* C21: the Display text of each of the seven service error kinds is the
\* kebab-case wire string that deserializes to that kind; and the rendering
\* of an Error::APIError has the pretty-printed JSON of the service's error
\* object in it, with the kind under "error" as the service sent it and the
\* text under "info", null for what the service did not send.
C21_RenderingIdentifiesKind ==
    /\ \A k \in DailyCoErrorKindVariants :
         /\ Display_DailyCoErrorKind(k) = WireName.DailyCoErrorKind[k]
         /\ Display_DailyCoErrorKind(k) \in DOMAIN ErrorKindOnWire
         /\ ErrorKindOnWire[Display_DailyCoErrorKind(k)] = k
         /\ FromJson("DailyCoErrorKind", JStr(Display_DailyCoErrorKind(k))) = Ok(k)
    /\ (out.op = "to_string" /\ parsed.result.err.error = "APIError") =>
         /\ Contains(out.text, Display_DailyCoErrorInfo(parsed.result.err.info))
         /\ Contains(out.text, "\n  \"error\": " \o AsSent("error") \o ",")
         /\ Contains(out.text, "\n  \"info\": " \o AsSent("info") \o "\n}")
         /\ AsSent("error") # "null" =>
              AsSent("error") = "\"" \o out.kind_text[1] \o "\""

\* delete_room got 500 {"error":"rate-limit-error","info":"room not found"}
\* and the error was rendered.
C21_Witness ==
    /\ out.op = "to_string" /\ parsed.op = "delete_room" /\ status = 500
    /\ response = JObj([error |-> JStr("rate-limit-error"),
                        info |-> JStr("room not found")])
    /\ out.kind_text = Some("rate-limit-error")
    /\ out.text = "daily request returned an error: {\n  \"error\": \"rate-limit-error\",\n  \"info\": \"room not found\"\n}"

\* The path of url is below a collection of the endpoint of c: the path of
\* c.base_url, then "rooms" or "meeting-tokens", then more.
UnderCollection(c, url) ==
    \E coll \in {"rooms", "meeting-tokens"} :
        LET pre == SubSeq(c.base_url.path, 1, Len(c.base_url.path) - 1) \o <<coll>>
        IN  Len(url.path) > Len(pre) /\ SubSeq(url.path, 1, Len(pre)) = pre

\* C26: building the request URL never fails: for every room name passed
\* to get_room or delete_room and every token passed to get_meeting_token,
\* the joins of base_url succeed, so that no call panics in an unwrap.
C26_UrlBuildingNeverPanics ==
    \A i \in DOMAIN calls : calls[i].state # "panicked"

\* C27: every request a Client issues, and with it its Authorization
\* header, goes to a URL that has the origin of base_url and a path below
\* the rooms/ or the meeting-tokens/ collection of base_url, whatever the
\* room name or the token of the caller is.
C27_RequestsStayOnEndpoint ==
    \A k \in DOMAIN requests :
        /\ requests[k].request.authorization = client.authorization
        /\ requests[k].request.url.origin = client.base_url.origin
        /\ UnderCollection(client, requests[k].request.url)

====
